---- MODULE Spec2Model ----
(***************************************************************************)
(* RoboAxis frontend: the scene synchronisation engine (Scene3D), the      *)
(* asset cache (loadModelBody), the legacy snapshot reconciler             *)
(* (_applySnapshot) and the wiring of main.js to the panels.               *)
(*                                                                         *)
(* JavaScript runs one event handler at a time and drains the microtask    *)
(* queue before the next handler starts, so every action below is one      *)
(* handler (or one public call) together with the promise continuations    *)
(* that become runnable during it.                                         *)
(***************************************************************************)
EXTENDS Integers, Sequences, FiniteSets, TLC

\* ------------------------------------------------------------------ bounds

\* THREE.Group objects that are reachable at one time (in the index, or
\* captured by the closure of a load that has not settled).
MaxNodes == 3
\* Entries of one state_update message.
MaxEntries == 2
\* Models constructed by _applySnapshot in one behaviour.
MaxModels == 3
\* RobotLink and RobotJoint instances constructed in one behaviour.
MaxInstances == 3
\* Pointer coordinates are 0..MaxCoord in both directions.
MaxCoord == 6

\* Longest component list handed to the details panel.
MaxComponents == 4

\* Most jog commands a behaviour sends.
MaxCommands == 4

\* Most WebSocket objects a behaviour creates.
MaxSockets == 3

\* Most messages a behaviour receives.
MaxMessages == 3

\* Most add-robot choices a behaviour makes.
MaxAdds == 2

\* Most robot pickers, shown or being prepared, at one time.
MaxPickers == 2

\* Most joints _getRobotJoints collects before the model stops following it.
MaxChain == 4

\* Most animation frames a behaviour requests.
MaxFrames == 6

\* websocket_client.js line 47: the reconnect delay in milliseconds.
RECONNECT_DELAY == 2000

\* ------------------------------------------------------------------ values

\* JavaScript null / undefined for string-valued fields.
Null == "null"

\* Component ids the backend uses.
Ids == {"a", "b"}

\* An absent `matrix` field of a state entry or of snapshot props.
NoMatrix == <<>>

\* Row-major 4x4 matrices the backend sends: a translation by (1,2,3), and a
\* quarter turn about Z scaled by 2 and translated by (0,1,0).
M1 == <<1, 0, 0, 1,   0, 1, 0, 2,   0, 0, 1, 3,   0, 0, 0, 1>>

M2 == <<0, -2, 0, 0,   2, 0, 0, 1,   0, 0, 2, 0,   0, 0, 0, 1>>

Matrices == {M1, M2}

IdentityMatrix == <<1, 0, 0, 0,   0, 1, 0, 0,   0, 0, 1, 0,   0, 0, 0, 1>>

Range(f) == {f[x] : x \in DOMAIN f}

\* ------------------------------------------------- Matrix4.decompose (three)

Col(m, c) == <<m[c], m[4 + c], m[8 + c]>>

Norm2(v) == v[1] * v[1] + v[2] * v[2] + v[3] * v[3]

ISqrt(n) == CHOOSE r \in 0..n : r * r <= n /\ (r + 1) * (r + 1) > n

\* Determinant of the upper-left 3x3 block (the 4x4 determinant of an affine
\* matrix whose last row is 0 0 0 1).
Det3(m) ==
    m[1] * (m[6] * m[11] - m[7] * m[10])
    - m[2] * (m[5] * m[11] - m[7] * m[9])
    + m[3] * (m[5] * m[10] - m[6] * m[9])

\* position is the translation column, scale the lengths of the basis
\* columns (sx negated when the determinant is negative), and the rotation
\* the basis columns divided by the scale.  `quaternion` holds the rotation
\* matrix that Quaternion.setFromRotationMatrix is given.
Decompose(m) ==
    LET sx0 == ISqrt(Norm2(Col(m, 1)))
        sx  == IF Det3(m) < 0 THEN 0 - sx0 ELSE sx0
        sy  == ISqrt(Norm2(Col(m, 2)))
        sz  == ISqrt(Norm2(Col(m, 3)))
    IN  [position   |-> <<m[4], m[8], m[12]>>,
         quaternion |-> <<m[1] \div sx, m[2] \div sy, m[3] \div sz,
                          m[5] \div sx, m[6] \div sy, m[7] \div sz,
                          m[9] \div sx, m[10] \div sy, m[11] \div sz>>,
         scale      |-> <<sx, sy, sz>>]

\* What an arithmetic result is when an operand is undefined or not a number.
\* No well-formed matrix of the model has this element.
NaN == -1000000

\* matrix[i - 1] as Matrix4.set receives it: an index past the end of the
\* array reads undefined.
Element(m, i) == IF i \in DOMAIN m THEN m[i] ELSE NaN

\* The sixteen elements mat.set stores.
MatrixSet(m) == [i \in 1..16 |-> Element(m, i)]

\* The array holds sixteen numbers.
WellFormed(m) == \A i \in 1..16 : Element(m, i) # NaN

\* Matrix4.decompose of elements that are not all numbers: a position
\* component is the element it copies; the column lengths, the determinant
\* and the rotation are computed from elements that are not numbers.
DecomposeNaN(e) ==
    [position   |-> <<e[4], e[8], e[12]>>,
     quaternion |-> <<NaN, NaN, NaN, NaN, NaN, NaN, NaN, NaN, NaN>>,
     scale      |-> <<NaN, NaN, NaN>>]

\* model.matrix.copy(mat); model.matrix.decompose(position, quaternion, scale);
\* model.matrixAutoUpdate = false
ApplyMatrix(model, m) ==
    LET d == IF WellFormed(m) THEN Decompose(m) ELSE DecomposeNaN(MatrixSet(m))
    IN  [model EXCEPT !.matrix = IF WellFormed(m) THEN m ELSE MatrixSet(m),
                      !.position = d.position,
                      !.quaternion = d.quaternion,
                      !.scale = d.scale,
                      !.matrixAutoUpdate = FALSE]

\* ------------------------------------------------------- asset environment

\* The cad_file the backend names and the bodies that GLB file contains.
Files == {"robot.glb"}

AssetBodies(file) == IF file = "robot.glb" THEN {"Body"} ELSE {"Tool"}

FilePath(modelFile) == "/static/assets/" \o modelFile

Paths == {FilePath(f) : f \in Files}

\* The material of a body inside the cached source asset.  Materials are
\* numbered: 0 is the line material of an AxesHelper, -1 the material of the
\* cached source body, g > 0 the material created for the fragment that is
\* attached to group g (each group receives at most one fragment).
SourceMaterial == -1

AxesHelper == [isMesh |-> FALSE, name |-> "AxesHelper", material |-> 0]

\* ------------------------------------------------------------ input values

Component(id, type, parent, file, body) ==
    [id |-> id, component_type |-> type, parent |-> parent,
     cad_file |-> file, cad_body |-> body]

\* What _findRobot returns when no ancestor is a robot (null).
NoComponent == Component(Null, Null, Null, Null, Null)

JointA == Component("a", "joint", Null, "robot.glb", "Body")

PlainA == Component("a", "link", Null, Null, Null)

LinkB == Component("b", "link", "a", "robot.glb", "Body")

LinkBMissing == Component("b", "link", Null, "robot.glb", "Missing")

\* Scene definitions: component lists with unique ids.
Definitions ==
    { [components |-> <<>>],
      [components |-> <<JointA>>],
      [components |-> <<JointA, LinkB>>],
      [components |-> <<LinkBMissing, PlainA>>],
      [components |-> <<LinkB>>] }

DefIds(definition) ==
    {definition.components[i].id : i \in DOMAIN definition.components}

StateEntries ==
    { [id |-> "a", matrix |-> NoMatrix], [id |-> "a", matrix |-> M1],
      [id |-> "a", matrix |-> M2], [id |-> "b", matrix |-> M1] }

SeqsUpTo(S, n) == UNION {[1..k -> S] : k \in 0..n}

\* state_update messages.
Updates == {[components |-> s] : s \in SeqsUpTo(StateEntries, MaxEntries)}

UpdateIds(update) == {update.components[i].id : i \in DOMAIN update.components}

\* ------------------------------------------------------------------- state

VARIABLES
    components,     \* Scene3D._components: id -> group
    groups,         \* the THREE.Group objects constructed so far, by number
    selectedId,     \* Scene3D._selectedId
    emissive,       \* the materials whose emissive tint is on
    modelCache,     \* modelCache: file path -> state of the cached promise
    loadRequests,   \* calls of gltfLoader.load per file path
    awaiting,       \* loadModelBody calls suspended at `await`
    appliedIds      \* ids of the definition buildFromDefinition was given last

sceneVars ==
    <<components, groups, selectedId, emissive, modelCache, loadRequests,
      awaiting, appliedIds>>

\* The earlier revisions of Scene3D that reconcile flat snapshots.
VARIABLES
    snapComponents,     \* _components of the matrix revision: name -> model
    models,             \* the models that revision has constructed, by number
    legacyComponents,   \* _components of the setAngle revision: name -> model
    legacyModels        \* the models that revision has constructed, by number

snapshotVars == <<snapComponents, models, legacyComponents, legacyModels>>

\* main.js, the details panel and the scene tree.
VARIABLES
    allComponents,      \* main's _allComponents
    detailsComponents,  \* the details panel's _components
    detailsSelectedId,  \* the details panel's _selectedId
    stateMap,           \* the details panel's _stateMap: id -> state entry
    received,           \* ghost: id -> the last state entry received for it
    moved,              \* ghost: id -> the last matrix its live node received
    selectedRow,        \* the tree's _selectedRow, by the id of its component
    rowMap,             \* the ids that have a row in the tree's _rowMap
    collapsed,          \* the ids of the rows whose child list has the
                        \* class st-collapsed
    stateSection        \* what #details-state-section shows: nothing before
                        \* a selection, the waiting text, or an entry's rows

mainVars ==
    <<allComponents, detailsComponents, detailsSelectedId, stateMap,
      received, moved,
      selectedRow, rowMap, collapsed,
                   stateSection>>

\* models/three_axis_robot.js.
VARIABLES
    robotModelCache,    \* the module's robotModelCache: Null or the gltf scene
    robotLoads,         \* how often loader.load was called for robot.glb
    robotInstances      \* the RobotLink and RobotJoint groups constructed

robotVars == <<robotModelCache, robotLoads, robotInstances>>

\* The render loop and the handler the event loop is running.
VARIABLES
    running,            \* the reconciliation on the call stack and what is
                        \* left of its loop; op "idle" when the stack is empty
    drawn               \* ghost: what the last frame saw: "none", "whole", "torn"

frameVars == <<running, drawn>>

\* The pointer listeners that setPicking registers.
VARIABLES
    downPos,            \* the closure's downPos: <<>> for null, or <<x, y>>
    lastUp              \* ghost: the last pointerup and what it did

pointerVars == <<downPos, lastUp>>

\* The jog section of the details panel.
VARIABLES
    jogRows,            \* the joint rows rendered in #jog-section, in order;
                        \* <<>> when the panel has no jog section
    jogRobotId          \* the robotId the jog handlers close over, Null
                        \* when none were attached

jogVars == <<jogRows, jogRobotId>>

\* One call of _findRobot, stepped through its while loop.
VARIABLES
    walk                \* pc "idle", "loop" or "done"; the argument, the
                        \* local `current` and the value returned

walkVars == <<walk>>

\* The pointer over the jog buttons and the commands their listeners send.
VARIABLES
    over,               \* the jog button under the pointer, or NoButton
    held,               \* ghost: the jog button pressed and not yet released
    sent,               \* ghost: the jog commands posted, in order
    pending,            \* the POSTs in flight, each with whether its promise
                        \* has a rejection handler
    raised              \* ghost: a rejection went unhandled

buttonVars == <<over, held, sent, pending, raised>>

VARIABLES
    lastIds             \* ghost of the panel's own specification: the ids
                        \* the last state update carried

\* The tree of panels/scene_tree.js, the revision without _rowMap, mounted by
\* the main.js that hands it showComponentDetails.
VARIABLES
    legacyTree          \* comps: the components mounted; collapsed: as above;
                        \* selected: _selectedRow; shown: the id the
                        \* onSelect callback was last called with

\* The WebSocketClient instance and the WebSocket objects it has created.
VARIABLES
    sockets,            \* the WebSocket objects in order of creation: url,
                        \* state, and whether onclose still holds the
                        \* reconnecting handler
    ws,                 \* this._ws: an index into sockets, 0 for null
    timers,             \* the delays of the pending reconnect timers
    closeCalled,        \* ghost: close() has been called
    wsRaised            \* ghost: a handler of the client threw

socketVars == <<sockets, ws, timers, closeCalled, wsRaised>>

VARIABLES
    wsLog,              \* ghost: per message received, the callback it was
                        \* dispatched to or "dropped" for a console warning
    adds,               \* the tree's "+" button, the device list requests
                        \* in flight, the robot pickers in the document, and the
                        \* runs of onAddRobot: the state of the creation
                        \* POST and of the definition fetch of each
    loop,               \* Scene3D's render loop: _animId, the animation
                        \* frame requests that are pending, the number of
                        \* requests made (one per frame rendered), whether
                        \* the resize observer observes, and ghost: stop()
                        \* has returned and start() was not called since
    collect             \* the call of _getRobotJoints that is running: its
                        \* component list, parentId and joints; and ghost:
                        \* the list and the result of the call that
                        \* returned last

\* The variables of the details panel's and the tree's finer-grained machines.
lateVars ==
    <<walkVars, buttonVars, lastIds, legacyTree, socketVars, wsLog, adds,
      loop, collect>>

\* lateVars without the variables of one machine.
walkRest ==
    <<buttonVars, lastIds, legacyTree, socketVars, wsLog, adds, loop,
      collect>>

buttonRest ==
    <<walkVars, lastIds, legacyTree, socketVars, wsLog, adds, loop,
      collect>>

legacyRest ==
    <<walkVars, buttonVars, lastIds, socketVars, wsLog, adds, loop,
      collect>>

socketRest ==
    <<walkVars, buttonVars, lastIds, legacyTree, adds, loop, collect>>

addRest ==
    <<walkVars, buttonVars, lastIds, legacyTree, socketVars, wsLog, loop,
      collect>>

\* lateVars without the ghosts that the callers of a state update write.
panelRest ==
    <<walkVars, buttonVars, legacyTree, socketVars, adds, loop, collect>>

\* lateVars without the ghosts that the callers of applyDefinition write.
redefineRest ==
    <<walkVars, buttonVars, lastIds, legacyTree, socketVars, loop, collect>>

loopRest ==
    <<walkVars, buttonVars, lastIds, legacyTree, socketVars, wsLog, adds,
      collect>>

collectRest ==
    <<walkVars, buttonVars, lastIds, legacyTree, socketVars, wsLog, adds,
      loop>>

\* Everything but lateVars.
earlyVars ==
    <<sceneVars, snapshotVars, mainVars, robotVars, frameVars, pointerVars,
      jogVars>>

earlyRest == <<robotVars, frameVars, pointerVars, jogVars>>

\* The variables of the modules that Scene3D, the snapshot revisions and
\* main.js never write.
restVars == <<robotVars, frameVars, pointerVars, jogVars, lateVars>>

\* restVars without the variables of one module.
robotRest == <<frameVars, pointerVars, jogVars, lateVars>>

frameRest == <<robotVars, pointerVars, jogVars, lateVars>>

pointerRest == <<robotVars, frameVars, jogVars, lateVars>>

vars == <<sceneVars, snapshotVars, mainVars, restVars>>

\* The Scene3D instance and the module-level cache as one value.
Scene ==
    [components |-> components, groups |-> groups, selectedId |-> selectedId,
     emissive |-> emissive, modelCache |-> modelCache,
     loadRequests |-> loadRequests, awaiting |-> awaiting]

SetScene(s) ==
    /\ components' = s.components
    /\ groups' = s.groups
    /\ selectedId' = s.selectedId
    /\ emissive' = s.emissive
    /\ modelCache' = s.modelCache
    /\ loadRequests' = s.loadRequests
    /\ awaiting' = s.awaiting

\* A slot of the heap that holds no object.
FreeGroup ==
    [name |-> Null,
     ctor |-> Null,
     parent |-> "free",
     children |-> <<>>,
     matrix |-> IdentityMatrix,
     position |-> <<0, 0, 0>>,
     quaternion |-> <<1, 0, 0, 0, 1, 0, 0, 0, 1>>,
     scale |-> <<1, 1, 1>>,
     matrixAutoUpdate |-> TRUE]

FreeSlots(s) == {g \in DOMAIN s.groups : s.groups[g].parent = "free"}

\* The object `new` returns: the lowest free slot.
NewSlot(s) == CHOOSE g \in FreeSlots(s) : \A h \in FreeSlots(s) : g <= h

\* new Joint() / new THREE.Group() with an AxesHelper; group.name = id.
NewGroup(component_type, id) ==
    [name |-> id,
     ctor |-> IF component_type = "joint" THEN "Joint" ELSE "Group",
     parent |-> "none",
     children |-> <<AxesHelper>>,
     matrix |-> IdentityMatrix,
     position |-> <<0, 0, 0>>,
     quaternion |-> <<1, 0, 0, 0, 1, 0, 0, 0, 1>>,
     scale |-> <<1, 1, 1>>,
     matrixAutoUpdate |-> TRUE]

\* The materials _setHighlight reaches by traversing a group.
MeshMaterials(group) ==
    {group.children[i].material :
        i \in {j \in DOMAIN group.children : group.children[j].isMesh}}

\* ------------------------------------------------------------ loadModelBody

\* Mutant of RequestModel: the cache is not consulted before loading.
RequestModelUncached(s, filePath) ==
    [s EXCEPT !.loadRequests[filePath] = @ + 1,
              !.modelCache = (filePath :> "pending") @@ @]

\* Lines 33-49: the synchronous part of loadModelBody, up to the `await`.  The
\* loader is asked for the file only if the cache has no promise for its path.
RequestModel(s, filePath) ==
    IF filePath \in DOMAIN s.modelCache
    THEN s
    ELSE [s EXCEPT !.loadRequests[filePath] = @ + 1,
                   !.modelCache = (filePath :> "pending") @@ @]

\* Mutant of Fragment: the clone keeps the material of the cached asset.
FragmentSharedMaterial(s, k) ==
    [mesh |-> [isMesh |-> TRUE, name |-> k.body, material |-> SourceMaterial],
     emissive |-> s.emissive]

\* Lines 53-81: the fragment loadModelBody returns once the cached promise is
\* fulfilled: a clone of the named body with its own material (Material.clone
\* copies the emissive state of the source), or a placeholder box with a new
\* material when the body is not in the file.
Fragment(s, k) ==
    IF k.body \in AssetBodies(k.file)
    THEN [mesh |-> [isMesh |-> TRUE, name |-> k.body, material |-> k.group],
          emissive |-> IF SourceMaterial \in s.emissive
                       THEN s.emissive \cup {k.group}
                       ELSE s.emissive \ {k.group}]
    ELSE [mesh |-> [isMesh |-> TRUE, name |-> "placeholder",
                    material |-> k.group],
          emissive |-> s.emissive \ {k.group}]

\* Mutant of AttachMesh: the fragment is dropped.
AttachMeshDropped(s, k) == s

\* scene.js lines 182-184: the .then callback, group.add(mesh) on the group
\* the closure captured.
AttachMesh(s, k) ==
    LET f == Fragment(s, k)
    IN  [s EXCEPT !.groups[k.group].children = Append(@, f.mesh),
                  !.emissive = f.emissive]

\* One suspended loadModelBody call resumes: the fragment is attached when the
\* promise was fulfilled; when it was rejected the .catch callback only logs.
Resume(s, k) ==
    LET s1 == [s EXCEPT !.awaiting = @ \ {k}]
    IN  IF s.modelCache[FilePath(k.file)] = "fulfilled"
        THEN AttachMesh(s1, k)
        ELSE s1

Runnable(s) ==
    {k \in s.awaiting : s.modelCache[FilePath(k.file)] # "pending"}

\* The microtask queue is drained: every call whose promise is settled
\* resumes.  Each call owns a different group, so their order is immaterial.
RECURSIVE Drain(_)
Drain(s) ==
    IF Runnable(s) = {}
    THEN s
    ELSE Drain(Resume(s, CHOOSE k \in Runnable(s) : TRUE))

\* loadModelBody(cad_file, cad_body).then(mesh => group.add(mesh)) as called
\* from buildFromDefinition for group g.
LoadModelBody(s, modelFile, bodyName, g) ==
    LET s1 == RequestModel(s, FilePath(modelFile))
    IN  [s1 EXCEPT !.awaiting =
            @ \cup {[file |-> modelFile, body |-> bodyName, group |-> g]}]

\* ------------------------------------------------------------------ Scene3D

\* Mutant of ClearComponents: the groups are detached but the index entries
\* are not deleted.
ClearComponentsKeepIndex(s) ==
    [s EXCEPT !.groups = [g \in DOMAIN s.groups |->
                            IF g \in Range(s.components)
                            THEN [s.groups[g] EXCEPT !.parent = "none"]
                            ELSE s.groups[g]]]

\* Lines 156-161: every indexed group is detached from its parent and
\* deleted from the index.
ClearComponents(s) ==
    [s EXCEPT !.groups = [g \in DOMAIN s.groups |->
                            IF g \in Range(s.components)
                            THEN [s.groups[g] EXCEPT !.parent = "none"]
                            ELSE s.groups[g]],
              !.components = <<>>]

\* A group that is not in the index, has no parent and is captured by no
\* suspended load is unreachable: the garbage collector frees it, and with it
\* the material of its fragment.
Unreachable(s) ==
    {g \in DOMAIN s.groups :
        /\ s.groups[g].parent = "none"
        /\ g \notin Range(s.components)
        /\ \A k \in s.awaiting : k.group # g}

Collect(s) ==
    [s EXCEPT !.groups = [g \in DOMAIN s.groups |->
                            IF g \in Unreachable(s) THEN FreeGroup
                            ELSE s.groups[g]],
              !.emissive = @ \ Unreachable(s)]

\* Lines 165-195: one iteration of the loop over definition.components.
CreateComponent(s, componentDef) ==
    LET g  == NewSlot(s)
        s1 == [s EXCEPT !.groups[g] =
                    NewGroup(componentDef.component_type, componentDef.id)]
        s2 == IF componentDef.cad_file # Null /\ componentDef.cad_body # Null
              THEN LoadModelBody(s1, componentDef.cad_file,
                                 componentDef.cad_body, g)
              ELSE s1
    IN  [s2 EXCEPT !.components = (componentDef.id :> g) @@ @,
                   !.groups[g].parent = "scene"]

RECURSIVE CreateComponents(_, _)
CreateComponents(s, comps) ==
    IF comps = <<>>
    THEN s
    ELSE CreateComponents(CreateComponent(s, Head(comps)), Tail(comps))

\* Lines 153-196.
buildFromDefinition(s, definition) ==
    LET cleared == [ClearComponents(s) EXCEPT !.selectedId = Null]
    IN  CreateComponents(Collect(cleared), definition.components)

\* Mutant of UpdateEntry: the matrix is applied to the selected component
\* when there is one, instead of the component the entry names.
UpdateEntrySelected(s, entry) ==
    LET id == IF s.selectedId # Null THEN s.selectedId ELSE entry.id
    IN  IF id \notin DOMAIN s.components
        THEN s
        ELSE IF entry.matrix # NoMatrix
             THEN [s EXCEPT !.groups[s.components[id]] =
                                ApplyMatrix(@, entry.matrix)]
             ELSE s

\* Lines 204-227: one iteration of the loop over update.components.
UpdateEntry(s, entry) ==
    IF entry.id \notin DOMAIN s.components
    THEN s
    ELSE IF entry.matrix # NoMatrix
         THEN [s EXCEPT !.groups[s.components[entry.id]] =
                            ApplyMatrix(@, entry.matrix)]
         ELSE s

\* Mutant of UpdateEntries: an unknown id ends the loop (return instead of
\* continue).
RECURSIVE UpdateEntriesReturn(_, _)
UpdateEntriesReturn(s, entries) ==
    IF entries = <<>>
    THEN s
    ELSE IF Head(entries).id \notin DOMAIN s.components
         THEN s
         ELSE UpdateEntriesReturn(UpdateEntry(s, Head(entries)), Tail(entries))

RECURSIVE UpdateEntries(_, _)
UpdateEntries(s, entries) ==
    IF entries = <<>>
    THEN s
    ELSE UpdateEntries(UpdateEntry(s, Head(entries)), Tail(entries))

\* Lines 202-228.
updateFromState(s, update) == UpdateEntries(s, update.components)

\* Lines 294-303: the emissive tint of every mesh material under the group is
\* switched on or off.
setHighlight(s, g, on) ==
    IF on
    THEN [s EXCEPT !.emissive = @ \cup MeshMaterials(s.groups[g])]
    ELSE [s EXCEPT !.emissive = @ \ MeshMaterials(s.groups[g])]

\* Mutant of UnhighlightPrevious: the previous selection keeps its tint.
UnhighlightPreviousSkipped(s) == s

\* Lines 237-239.
UnhighlightPrevious(s) ==
    IF s.selectedId # Null /\ s.selectedId \in DOMAIN s.components
    THEN setHighlight(s, s.components[s.selectedId], FALSE)
    ELSE s

\* Lines 236-244.
selectComponent(s, id) ==
    LET s1 == [UnhighlightPrevious(s) EXCEPT !.selectedId = id]
    IN  IF id # Null /\ id \in DOMAIN s1.components
        THEN setHighlight(s1, s1.components[id], TRUE)
        ELSE s1

\* ---------------------------------------------------------------- actions

Init ==
    /\ components = <<>>
    /\ groups = [g \in 1..MaxNodes |-> FreeGroup]
    /\ selectedId = Null
    /\ emissive = {}
    /\ modelCache = <<>>
    /\ loadRequests = [p \in Paths |-> 0]
    /\ awaiting = {}
    /\ appliedIds = {}
    /\ snapComponents = <<>>
    /\ models = <<>>
    /\ legacyComponents = <<>>
    /\ legacyModels = <<>>
    /\ allComponents = <<>>
    /\ detailsComponents = <<>>
    /\ detailsSelectedId = Null
    /\ stateMap = <<>>
    /\ received = <<>>
    /\ moved = <<>>
    /\ selectedRow = Null
    /\ rowMap = {}
    /\ collapsed = {}
    /\ stateSection = [shown |-> "none", rows |-> <<>>]
    /\ robotModelCache = Null
    /\ robotLoads = 0
    /\ robotInstances = <<>>
    /\ running = [op |-> "idle", todo |-> <<>>]
    /\ drawn = "none"
    /\ downPos = <<>>
    /\ lastUp = [armed |-> FALSE, dist2 |-> 0, cast |-> FALSE, picked |-> Null]
    /\ jogRows = <<>>
    /\ jogRobotId = Null
    /\ over = [joint |-> -1, dir |-> "none"]
    /\ held = [joint |-> -1, dir |-> "none"]
    /\ sent = <<>>
    /\ pending = <<>>
    /\ raised = FALSE
    /\ lastIds = {}
    /\ sockets = <<[url |-> "ws://host:8765", state |-> "connecting",
                    onclose |-> TRUE]>>
    /\ ws = 1
    /\ timers = <<>>
    /\ closeCalled = FALSE
    /\ wsRaised = FALSE
    /\ wsLog = <<>>
    /\ adds = [button |-> FALSE, fetching |-> <<>>, pickers |-> <<>>,
               runs |-> <<>>]
    /\ loop = [animId |-> 0, scheduled |-> {}, requests |-> 0,
               observing |-> TRUE, stopped |-> FALSE]
    /\ collect = [pc |-> "idle", comps |-> <<>>, parentId |-> Null,
                  joints |-> <<>>, last |-> [comps |-> <<>>, joints |-> <<>>]]
    /\ legacyTree = [comps |-> <<>>, collapsed |-> {}, selected |-> Null,
                     shown |-> Null]
    /\ walk = [pc |-> "idle", component |-> NoComponent,
               current |-> NoComponent, result |-> NoComponent]

\* scene3d.buildFromDefinition(definition), then the microtasks of the calls
\* whose file is already cached and settled.
AfterBuild(definition) == Drain(buildFromDefinition(Scene, definition))

\* The heap has room for the groups the definition needs.
CanBuild(definition) ==
    Len(definition.components)
       <= Cardinality(FreeSlots(Collect(ClearComponents(Scene))))

BuildFromDefinition(definition) ==
    /\ CanBuild(definition)
    /\ SetScene(AfterBuild(definition))
    /\ appliedIds' = DefIds(definition)
    /\ UNCHANGED <<snapshotVars, restVars, mainVars>>

\* scene3d.updateFromState(update)
AfterUpdate(update) == updateFromState(Scene, update)

UpdateFromState(update) ==
    /\ SetScene(AfterUpdate(update))
    /\ UNCHANGED <<appliedIds, snapshotVars, restVars, mainVars>>

\* scene3d.selectComponent(id)
AfterSelect(id) == selectComponent(Scene, id)

SelectComponent(id) ==
    /\ SetScene(AfterSelect(id))
    /\ UNCHANGED <<appliedIds, snapshotVars, restVars, mainVars>>

\* Mutant of AfterSettle: a rejected promise is deleted from the cache.
AfterSettleEvict(filePath, outcome) ==
    LET s == Drain([Scene EXCEPT !.modelCache[filePath] = outcome])
    IN  IF outcome = "rejected"
        THEN [s EXCEPT !.modelCache =
                 [q \in DOMAIN s.modelCache \ {filePath} |-> s.modelCache[q]]]
        ELSE s

\* The loader's onLoad (scene.js line 40) or onError (lines 42-45) callback
\* settles the cached promise, and every call awaiting it resumes.
AfterSettle(filePath, outcome) ==
    Drain([Scene EXCEPT !.modelCache[filePath] = outcome])

LoadResolved(filePath) ==
    /\ filePath \in DOMAIN modelCache
    /\ modelCache[filePath] = "pending"
    /\ SetScene(AfterSettle(filePath, "fulfilled"))
    /\ UNCHANGED <<appliedIds, snapshotVars, restVars, mainVars>>

LoadRejected(filePath) ==
    /\ filePath \in DOMAIN modelCache
    /\ modelCache[filePath] = "pending"
    /\ SetScene(AfterSettle(filePath, "rejected"))
    /\ UNCHANGED <<appliedIds, snapshotVars, restVars, mainVars>>

Next ==
    \/ \E definition \in Definitions : BuildFromDefinition(definition)
    \/ \E update \in Updates : UpdateFromState(update)
    \/ \E id \in Ids \cup {Null} : SelectComponent(id)
    \/ \E filePath \in Paths : LoadResolved(filePath)
    \/ \E filePath \in Paths : LoadRejected(filePath)

Spec == Init /\ [][Next]_vars

\* Definitions whose components list names an id twice.
DuplicateDefinitions ==
    { [components |-> <<PlainA, PlainA>>],
      [components |-> <<JointA, PlainA>>],
      [components |-> <<PlainA, LinkB, PlainA>>] }

\* Scene3D under definitions with and without repeated ids.
NextDuplicate ==
    \/ \E definition \in Definitions \cup DuplicateDefinitions :
          BuildFromDefinition(definition)
    \/ \E id \in Ids \cup {Null} : SelectComponent(id)
    \/ \E filePath \in Paths : LoadResolved(filePath)
    \/ \E filePath \in Paths : LoadRejected(filePath)

SpecDuplicate == Init /\ [][NextDuplicate]_vars

\* ------------------------------------------ Scene3D.start / Scene3D.stop

\* tick (lines 328-332): the next animation frame is requested, its id is
\* stored in _animId, and the frame is rendered.  Request ids count from 1;
\* _animId is 0 for null.
tick(l) ==
    [l EXCEPT !.requests = @ + 1,
              !.animId = l.requests + 1,
              !.scheduled = @ \cup {l.requests + 1}]

\* start() (lines 327-334): tick is defined and called once.
Start ==
    /\ loop.requests < MaxFrames
    /\ loop' = [tick(loop) EXCEPT !.stopped = FALSE]
    /\ UNCHANGED <<earlyVars, loopRest>>

\* The browser runs the callback of the pending request id.
AnimationFrame(id) ==
    /\ id \in loop.scheduled
    /\ loop.requests < MaxFrames
    /\ loop' = tick([loop EXCEPT !.scheduled = @ \ {id}])
    /\ UNCHANGED <<earlyVars, loopRest>>

\* stop() (lines 337-343): the request _animId names is cancelled.
Stop ==
    /\ loop' = [loop EXCEPT
                   !.scheduled = IF loop.animId # 0
                                 THEN @ \ {loop.animId} ELSE @,
                   !.animId = 0,
                   !.observing = FALSE,
                   !.stopped = TRUE]
    /\ UNCHANGED <<earlyVars, loopRest>>

NextLoop ==
    \/ Start
    \/ \E id \in 1..MaxFrames : AnimationFrame(id)
    \/ Stop

SpecLoop == Init /\ [][NextLoop]_vars

\* ------------------------------------------ _applySnapshot (flat snapshots)

Names == {"a", "b"}

\* MODEL_MAP of the matrix revision and of the setAngle revision.
MODEL_MAP ==
    {"AxisBase", "AxisRotor", "Link", "Joint", "RobotLink", "RobotJoint"}

LEGACY_MODEL_MAP == {"RotaryAxis"}

\* An absent `position` field of snapshot props.
NoPosition == <<>>

SnapshotEntry(name, type, matrix) ==
    [name |-> name, type |-> type, matrix |-> matrix]

\* The [name, props] pairs of Object.entries(data) that are drawn.
SnapshotEntries ==
    {SnapshotEntry("a", "AxisRotor", NoMatrix),
     SnapshotEntry("a", "AxisRotor", M1),
     SnapshotEntry("a", "AxisRotor", M2),
     SnapshotEntry("a", "Widget", M1),
     SnapshotEntry("b", "Link", M2),
     SnapshotEntry("b", "AxisBase", M1),
     SnapshotEntry("b", "Widget", NoMatrix)}

LegacyEntry(name, type, position) ==
    [name |-> name, type |-> type, position |-> position]

LegacyEntries ==
    {LegacyEntry("a", "RotaryAxis", NoPosition),
     LegacyEntry("a", "RotaryAxis", <<90>>),
     LegacyEntry("a", "Widget", <<90>>),
     LegacyEntry("b", "RotaryAxis", <<90>>),
     LegacyEntry("b", "Widget", NoPosition)}

UniqueNames(data) ==
    \A i, j \in DOMAIN data : data[i].name = data[j].name => i = j

\* Flat snapshots: JSON objects, in the order of their keys.
Snapshots ==
    {data \in SeqsUpTo(SnapshotEntries, Cardinality(Names)) : UniqueNames(data)}

LegacySnapshots ==
    {data \in SeqsUpTo(LegacyEntries, Cardinality(Names)) : UniqueNames(data)}

DataNames(data) == {data[i].name : i \in DOMAIN data}

\* The matrix revision's Scene3D as one value.
Snap == [components |-> snapComponents, models |-> models]

\* new Ctor(); model.name = name
NewModel(type, name) ==
    [name |-> name,
     ctor |-> type,
     parent |-> "none",
     matrix |-> IdentityMatrix,
     position |-> <<0, 0, 0>>,
     quaternion |-> <<1, 0, 0, 0, 1, 0, 0, 0, 1>>,
     scale |-> <<1, 1, 1>>,
     matrixAutoUpdate |-> TRUE]

\* A model that was removed and is referenced by nothing.
Released ==
    [name |-> Null,
     ctor |-> Null,
     parent |-> "none",
     matrix |-> IdentityMatrix,
     position |-> <<0, 0, 0>>,
     quaternion |-> <<1, 0, 0, 0, 1, 0, 0, 0, 1>>,
     scale |-> <<1, 1, 1>>,
     matrixAutoUpdate |-> TRUE]

\* Mutant of GetOrCreate: a model is constructed for every entry whose type is
\* registered, also when the index already has one.
GetOrCreateAlways(s, entry) ==
    IF entry.type \notin MODEL_MAP
    THEN s
    ELSE [components |-> (entry.name :> Len(s.models) + 1) @@ s.components,
          models |-> Append(s.models,
                [NewModel(entry.type, entry.name) EXCEPT !.parent = "scene"])]

\* part_004 lines 115-123: get the model or construct it, index it and add it
\* to the scene; an unregistered type with no model is skipped.
GetOrCreate(s, entry) ==
    IF entry.name \in DOMAIN s.components \/ entry.type \notin MODEL_MAP
    THEN s
    ELSE [components |-> (entry.name :> Len(s.models) + 1) @@ s.components,
          models |-> Append(s.models,
                [NewModel(entry.type, entry.name) EXCEPT !.parent = "scene"])]

\* part_004 lines 111-142: one iteration of the loop over Object.entries.
ApplyEntry(s, entry) ==
    LET s1 == GetOrCreate(s, entry)
    IN  IF entry.name \in DOMAIN s1.components /\ entry.matrix # NoMatrix
        THEN [s1 EXCEPT !.models[s1.components[entry.name]] =
                            ApplyMatrix(@, entry.matrix)]
        ELSE s1

\* Mutant of SnapshotEntriesLoop: the loop ends at the first entry whose type
\* has no constructor and whose name has no model.
RECURSIVE SnapshotEntriesLoopAbort(_, _)
SnapshotEntriesLoopAbort(s, data) ==
    IF data = <<>>
    THEN s
    ELSE IF Head(data).name \notin DOMAIN s.components
            /\ Head(data).type \notin MODEL_MAP
         THEN s
         ELSE SnapshotEntriesLoopAbort(ApplyEntry(s, Head(data)), Tail(data))

RECURSIVE SnapshotEntriesLoop(_, _)
SnapshotEntriesLoop(s, data) ==
    IF data = <<>>
    THEN s
    ELSE SnapshotEntriesLoop(ApplyEntry(s, Head(data)), Tail(data))

\* Mutant of RemoveUnseen: nothing is removed.
RemoveUnseenSkipped(s, seenNames) == s

\* part_004 lines 144-151: every indexed model whose name was not seen is
\* detached from its parent and deleted from the index (and is then garbage).
RemoveUnseen(s, seenNames) ==
    LET gone == {s.components[n] : n \in DOMAIN s.components \ seenNames}
    IN  [components |-> [n \in DOMAIN s.components \cap seenNames |->
                            s.components[n]],
         models |-> [g \in DOMAIN s.models |->
                        IF g \in gone THEN Released ELSE s.models[g]]]

\* part_004 lines 107-152.
applySnapshot(s, data) ==
    RemoveUnseen(SnapshotEntriesLoop(s, data), DataNames(data))

\* ----- the setAngle revision (part_001)

Legacy == [components |-> legacyComponents, models |-> legacyModels]

\* THREE.MathUtils.degToRad, in thousandths of a radian.
DegToRad(degrees) == (degrees * 31416) \div 1800

\* new RotaryAxis(); model.name = name.  rotationY is rotation.y.
NewLegacyModel(type, name) ==
    [name |-> name, ctor |-> type, parent |-> "none", rotationY |-> 0]

ReleasedLegacy ==
    [name |-> Null, ctor |-> Null, parent |-> "none", rotationY |-> 0]

\* part_001 lines 121-138: one iteration of the loop over Object.entries.
ApplyLegacyEntry(s, entry) ==
    LET s1 == IF entry.name \in DOMAIN s.components
                 \/ entry.type \notin LEGACY_MODEL_MAP
              THEN s
              ELSE [components |->
                        (entry.name :> Len(s.models) + 1) @@ s.components,
                    models |-> Append(s.models,
                        [NewLegacyModel(entry.type, entry.name)
                            EXCEPT !.parent = "scene"])]
    IN  IF entry.name \in DOMAIN s1.components /\ entry.position # NoPosition
        THEN [s1 EXCEPT !.models[s1.components[entry.name]].rotationY =
                            DegToRad(entry.position[1])]
        ELSE s1

RECURSIVE LegacyEntriesLoop(_, _)
LegacyEntriesLoop(s, data) ==
    IF data = <<>>
    THEN s
    ELSE LegacyEntriesLoop(ApplyLegacyEntry(s, Head(data)), Tail(data))

\* part_001 lines 140-146: scene.remove and delete for every name not in data.
LegacyRemove(s, data) ==
    LET gone == {s.components[n] : n \in DOMAIN s.components \ DataNames(data)}
    IN  [components |-> [n \in DOMAIN s.components \cap DataNames(data) |->
                            s.components[n]],
         models |-> [g \in DOMAIN s.models |->
                        IF g \in gone THEN ReleasedLegacy ELSE s.models[g]]]

\* part_001 lines 120-147.
applySnapshotLegacy(s, data) == LegacyRemove(LegacyEntriesLoop(s, data), data)

\* syncFromAPI(): the fetched /api/scene body is applied (part_004 96-100).
SyncFromAPI(data) ==
    LET s == applySnapshot(Snap, data)
    IN  /\ Len(s.models) <= MaxModels
        /\ snapComponents' = s.components
        /\ models' = s.models
        /\ UNCHANGED <<sceneVars, legacyComponents, legacyModels, mainVars,
                     restVars>>

\* updateFromSnapshot(snapshot): a WebSocket snapshot is applied (158-160).
UpdateFromSnapshot(snapshot) ==
    LET s == applySnapshot(Snap, snapshot)
    IN  /\ Len(s.models) <= MaxModels
        /\ snapComponents' = s.components
        /\ models' = s.models
        /\ UNCHANGED <<sceneVars, legacyComponents, legacyModels, mainVars,
                     restVars>>

\* updateFromSnapshot(snapshot) of the setAngle revision (part_001 153-155).
LegacyUpdateFromSnapshot(snapshot) ==
    LET s == applySnapshotLegacy(Legacy, snapshot)
    IN  /\ Len(s.models) <= MaxModels
        /\ legacyComponents' = s.components
        /\ legacyModels' = s.models
        /\ UNCHANGED <<sceneVars, snapComponents, models, mainVars,
                     restVars>>

NextSnapshot ==
    \/ \E data \in Snapshots : SyncFromAPI(data)
    \/ \E snapshot \in Snapshots : UpdateFromSnapshot(snapshot)
    \/ \E snapshot \in LegacySnapshots : LegacyUpdateFromSnapshot(snapshot)

SpecSnapshot == Init /\ [][NextSnapshot]_vars

\* -------------------------------------- main.js, details panel, scene tree

\* Mutant of setComponents: the list is stored only while the panel has none.
setComponentsOnce(comps) ==
    IF detailsComponents = <<>> THEN comps ELSE detailsComponents

\* details_panel.js setComponents: the new value of _components.
setComponents(comps) == comps

\* details_panel.js showComponentDetails: the new value of _selectedId.
showComponentDetails(component) == component.id

\* Array.prototype.find over a component list: the first element whose field
\* has the value, or NoComponent for undefined.
FindBy(comps, field, value) ==
    LET hits == {i \in DOMAIN comps : comps[i][field] = value}
    IN  IF hits = {}
        THEN NoComponent
        ELSE comps[CHOOSE i \in hits : \A j \in hits : i <= j]

\* The while loop of _findRobot, from the component it has reached.
RECURSIVE FindRobotFrom(_, _)
FindRobotFrom(comps, current) ==
    IF current.parent = Null
    THEN NoComponent
    ELSE LET parent == FindBy(comps, "id", current.parent)
         IN  IF parent = NoComponent
             THEN NoComponent
             ELSE IF parent.component_type = "serial_robot"
                  THEN parent
                  ELSE FindRobotFrom(comps, parent)

\* details_panel.js _findRobot(component) over _components.
findRobot(comps, component) ==
    IF component.component_type = "serial_robot"
    THEN component
    ELSE FindRobotFrom(comps, component)

\* Mutant of getRobotJoints: every joint of the list, in list order.
getRobotJointsListOrder(comps, robot) ==
    SelectSeq(comps, LAMBDA c : c.component_type = "joint")

\* The while loop of _getRobotJoints, from the parent id it has reached.
RECURSIVE JointChain(_, _)
JointChain(allJoints, parentId) ==
    LET joint == FindBy(allJoints, "parent", parentId)
    IN  IF joint = NoComponent
        THEN <<>>
        ELSE <<joint>> \o JointChain(allJoints, joint.id)

\* details_panel.js _getRobotJoints(robot) over _components.
getRobotJoints(comps, robot) ==
    JointChain(SelectSeq(comps, LAMBDA c : c.component_type = "joint"),
               robot.id)

\* One row of the jog section for joints[i] (i counted from 0 as by map):
\* the label J(i+1), data-joint i and data-joint-id.
JogRow(j, i) ==
    [label |-> <<"J", i + 1>>, joint |-> i, jointId |-> j.id]

\* details_panel.js _buildJogSection(robot): the rows of the section, <<>>
\* for the empty string.
buildJogSection(comps, robot) ==
    LET joints == getRobotJoints(comps, robot)
    IN  [k \in 1..Len(joints) |-> JogRow(joints[k], k - 1)]

\* The jog part of showComponentDetails: the rows shown for the component.
jogSection(comps, component) ==
    LET robot == findRobot(comps, component)
    IN  IF robot = NoComponent THEN <<>> ELSE buildJogSection(comps, robot)

\* Lines 192-194 of showComponentDetails: the robotId handed to
\* _attachJogHandlers, Null when it is not called.
attachedRobotId(comps, component) ==
    LET robot == findRobot(comps, component)
    IN  IF robot = NoComponent THEN Null ELSE robot.id

\* Mutant of updateComponentState: an id that has an entry keeps it.
RECURSIVE updateComponentStateKeepFirst(_, _)
updateComponentStateKeepFirst(map, stateComponents) ==
    IF stateComponents = <<>>
    THEN map
    ELSE updateComponentStateKeepFirst(
            map @@ (Head(stateComponents).id :> Head(stateComponents)),
            Tail(stateComponents))

\* details_panel.js updateComponentState (197-201): _stateMap.set(entry.id,
\* entry) for every entry, in order.
RECURSIVE updateComponentState(_, _)
updateComponentState(map, stateComponents) ==
    IF stateComponents = <<>>
    THEN map
    ELSE updateComponentState(
            (Head(stateComponents).id :> Head(stateComponents)) @@ map,
            Tail(stateComponents))

\* The state section as showComponentDetails renders it (lines 185-188).
Waiting == [shown |-> "waiting", rows |-> <<>>]

STATE_SKIP == {"id", "matrix"}

\* _format of a number: toFixed(2).  Numbers are held in thousandths, the
\* text in hundredths, halves rounded up.
Format(v) == (v + 5) \div 10

\* The rows updateComponentState renders for an entry: every field but id
\* and matrix, formatted.
StateRows(entry) ==
    [k \in DOMAIN entry \ STATE_SKIP |-> Format(entry[k])]

\* Mutant of updateStateSection: the entry is looked up in the message, not in
\* the state map.
updateStateSectionFromMessage(section, selected, map, stateComponents) ==
    IF selected = Null \/ section.shown = "none"
    THEN section
    ELSE IF \E i \in DOMAIN stateComponents :
                stateComponents[i].id = selected
         THEN [shown |-> "entry",
               rows |-> StateRows(
                   stateComponents[CHOOSE i \in DOMAIN stateComponents :
                       /\ stateComponents[i].id = selected
                       /\ \A j \in 1..(i - 1) :
                             stateComponents[j].id # selected])]
         ELSE section

\* updateComponentState lines 203-220: with a selection and a state section
\* in the document, the section shows the rows of the selected id's entry in
\* the (updated) state map; it is left alone when the map has none.
updateStateSection(section, selected, map, stateComponents) ==
    IF selected = Null \/ section.shown = "none"
    THEN section
    ELSE IF selected \in DOMAIN map
         THEN [shown |-> "entry", rows |-> StateRows(map[selected])]
         ELSE section

\* scene_tree.js buildNode, from a set of rows down: a component gets a row
\* when its parent has one.
RECURSIVE BuildNodes(_, _)
BuildNodes(comps, rows) ==
    LET below == {comps[i].id : i \in {j \in DOMAIN comps :
                                            comps[j].parent \in rows}}
    IN  IF below \subseteq rows
        THEN rows
        ELSE BuildNodes(comps, rows \cup below)

\* scene_tree.js mountSceneTree: the keys of _rowMap afterwards.  The roots
\* are the components without a parent.
mountSceneTree(comps) ==
    BuildNodes(comps,
        {comps[i].id : i \in {j \in DOMAIN comps : comps[j].parent = Null}})

\* scene_tree.js selectComponentInTree: the new value of _selectedRow.
selectComponentInTree(rows, id) == IF id \in rows THEN id ELSE Null

\* scene_tree.js selectComponentInTree lines 293-313 on the rows that carry
\* the class st-selected: the class is taken from _selectedRow and, when id
\* has a row, given to that row.
selectMarks(marks, selected, rows, id) ==
    IF id = Null \/ id \notin rows
    THEN marks \ {selected}
    ELSE (marks \ {selected}) \cup {id}

\* buildNode's hasChildren: some component of the list names id as parent.
HasChildren(comps, id) == \E j \in DOMAIN comps : comps[j].parent = id

\* The child lists buildNode creates, all with class st-collapsed.
mountCollapsed(comps) ==
    {id \in mountSceneTree(comps) : HasChildren(comps, id)}

\* The rows whose child lists are the ul.st-children elements above the row
\* of id in the document: the row's ancestors.
RECURSIVE TreeAncestors(_, _)
TreeAncestors(comps, id) ==
    LET c == FindBy(comps, "id", id)
    IN  IF c = NoComponent \/ c.parent = Null
        THEN {}
        ELSE {c.parent} \cup TreeAncestors(comps, c.parent)

\* Mutant of expandAncestors: only the list the row is in is expanded.
expandAncestorsParentOnly(comps, rows, coll, id) ==
    IF id = Null \/ id \notin rows
    THEN coll
    ELSE coll \ {FindBy(comps, "id", id).parent}

\* selectComponentInTree lines 300-308: the collapsed child lists afterwards.
expandAncestors(comps, rows, coll, id) ==
    IF id = Null \/ id \notin rows
    THEN coll
    ELSE coll \ TreeAncestors(comps, id)

\* classList.toggle('st-collapsed') on the child list of row id.
toggleCollapsed(coll, id) ==
    IF id \in coll THEN coll \ {id} ELSE coll \cup {id}

\* The elements of a sequence at the indices other than i.
Without(seq, i) ==
    [k \in 1..(Len(seq) - 1) |-> IF k < i THEN seq[k] ELSE seq[k + 1]]

\* The anchor of every picker, shown or being prepared, is a button that is
\* no longer in the tree.
Stale(a) ==
    [a EXCEPT !.fetching = [k \in DOMAIN @ |-> TRUE],
              !.pickers = [k \in DOMAIN @ |-> [@[k] EXCEPT !.stale = TRUE]]]

\* mountSceneTree lines 320-321 and 340-347: the element getElementById finds
\* for the picker's id, the first in the document, is removed; the old panel
\* with its "+" button is replaced, and given onAddRobot the new header gets
\* a "+" button.
mountAddButton(a) ==
    [Stale(a) EXCEPT !.button = TRUE,
                     !.pickers = IF @ = <<>> THEN <<>> ELSE Tail(@)]

\* main.js applyDefinition, but for the ghosts of its callers.
Redefine(definition) ==
    /\ CanBuild(definition)
    /\ allComponents' = definition.components
    /\ detailsComponents' = setComponents(definition.components)
    /\ SetScene(AfterBuild(definition))
    /\ appliedIds' = DefIds(definition)
    /\ selectedRow' = Null
    /\ rowMap' = mountSceneTree(definition.components)
    /\ collapsed' = mountCollapsed(definition.components)
    /\ moved' = <<>>
    /\ UNCHANGED <<detailsSelectedId, stateMap, received, stateSection,
                   snapshotVars, earlyRest, redefineRest>>

\* scene3d.buildFromDefinition for a definition without a components list
\* (scene.js 153-165): the index is cleared and the selection reset, then the
\* for-of over undefined throws a TypeError.
buildFromDefinitionThrows(s) ==
    Collect([ClearComponents(s) EXCEPT !.selectedId = Null])

\* main.js applyDefinition for a definition without a components list:
\* _allComponents and the panel's list are assigned undefined, the scene is
\* cleared, and the TypeError leaves applyDefinition before mountSceneTree.
RedefineThrows(definition) ==
    /\ allComponents' = definition.components
    /\ detailsComponents' = setComponents(definition.components)
    /\ SetScene(buildFromDefinitionThrows(Scene))
    /\ appliedIds' = {}
    /\ moved' = <<>>
    /\ UNCHANGED <<selectedRow, rowMap, collapsed, detailsSelectedId,
                   stateMap, received, stateSection, snapshotVars, earlyRest,
                   redefineRest>>

\* main.js applyDefinition, run for a definition message and by
\* rebuildFromServer.
ApplyDefinition(definition) ==
    /\ Redefine(definition)
    /\ adds' = mountAddButton(adds)
    /\ UNCHANGED wsLog

\* main.js onSelect(component).
OnSelect(component) ==
    /\ detailsSelectedId' = showComponentDetails(component)
    /\ jogRows' = jogSection(detailsComponents, component)
    /\ jogRobotId' = attachedRobotId(detailsComponents, component)
    /\ stateSection' = Waiting
    /\ SetScene(AfterSelect(component.id))
    /\ selectedRow' = selectComponentInTree(rowMap, component.id)
    /\ collapsed' =
         expandAncestors(allComponents, rowMap, collapsed, component.id)
    /\ UNCHANGED <<appliedIds, snapshotVars, robotVars, frameVars,
                   pointerVars, lateVars, allComponents, detailsComponents,
                   stateMap, received, moved, rowMap>>

\* A click on a tree row: the row's listener marks it and calls onSelect with
\* the component the row was built for.
RowClick(i) ==
    /\ i \in DOMAIN allComponents
    /\ allComponents[i].id \in rowMap
    /\ OnSelect(allComponents[i])

\* A click on the canvas that hits component `id`: the picking callback looks
\* the id up in _allComponents and calls onSelect.
Pick(id) ==
    /\ id \in DOMAIN components
    /\ \E i \in DOMAIN allComponents :
            /\ allComponents[i].id = id
            /\ \A j \in 1..(i - 1) : allComponents[j].id # id
            /\ OnSelect(allComponents[i])

\* Mutant of rayTargets: the ray is tested against every group that exists.
rayTargetsAll(s) == DOMAIN s.groups \ FreeSlots(s)

\* scene.js line 277: the objects the ray is tested against, with their
\* descendants: Object.values(this._components).
rayTargets(s) == Range(s.components)

\* _findComponentId (lines 286-292) from the k-th child of group g: the first
\* name on the way up that is a key of the index, or Null.
findComponentId(s, g, k) ==
    IF s.groups[g].children[k].name \in DOMAIN s.components
    THEN s.groups[g].children[k].name
    ELSE IF s.groups[g].name \in DOMAIN s.components
         THEN s.groups[g].name
         ELSE Null

\* A click on the canvas whose ray hits the k-th child of group g: the
\* pointerup listener (lines 261-282) calls onPick with the id it finds, and
\* main's callback calls onSelect if _allComponents has a component of that
\* id.
ViewportPick(g, k) ==
    /\ g \in rayTargets(Scene)
    /\ k \in DOMAIN groups[g].children
    /\ LET id == findComponentId(Scene, g, k)
       IN  IF id # Null /\ FindBy(allComponents, "id", id) # NoComponent
           THEN OnSelect(FindBy(allComponents, "id", id))
           ELSE UNCHANGED vars

\* main.js under definitions, loads and clicks on the canvas.
NextPick ==
    \/ \E definition \in Definitions : ApplyDefinition(definition)
    \/ \E g \in 1..MaxNodes, k \in 1..2 : ViewportPick(g, k)
    \/ \E filePath \in Paths : LoadResolved(filePath)
    \/ \E filePath \in Paths : LoadRejected(filePath)

SpecPick == Init /\ [][NextPick]_vars

\* The last matrix the entries of a state update carry for id, or NoMatrix.
RECURSIVE LastMatrix(_, _)
LastMatrix(entries, id) ==
    IF entries = <<>>
    THEN NoMatrix
    ELSE LET e == entries[Len(entries)]
         IN  IF e.id = id /\ e.matrix # NoMatrix
             THEN e.matrix
             ELSE LastMatrix(SubSeq(entries, 1, Len(entries) - 1), id)

\* The last entry a state update carries for id.
LastEntry(entries, id) ==
    entries[CHOOSE i \in DOMAIN entries :
                /\ entries[i].id = id
                /\ \A j \in DOMAIN entries : entries[j].id = id => j <= i]

\* The WebSocket client's callback for a state update, but for the ghosts of
\* its callers.
StateUpdate(update) ==
    /\ SetScene(AfterUpdate(update))
    /\ stateMap' = updateComponentState(stateMap, update.components)
    /\ stateSection' =
         updateStateSection(stateSection, detailsSelectedId,
                            updateComponentState(stateMap, update.components),
                            update.components)
    /\ received' = [id \in DOMAIN received \cup UpdateIds(update) |->
            IF id \in UpdateIds(update)
            THEN LastEntry(update.components, id)
            ELSE received[id]]
    /\ moved' = [id \in DOMAIN moved \cup
                        {i \in UpdateIds(update) \cap DOMAIN components :
                            LastMatrix(update.components, i) # NoMatrix} |->
            IF LastMatrix(update.components, id) # NoMatrix
            THEN LastMatrix(update.components, id)
            ELSE moved[id]]
    /\ UNCHANGED <<appliedIds, snapshotVars, robotVars, frameVars,
                   pointerVars, jogVars, panelRest, allComponents,
                   detailsComponents, detailsSelectedId, selectedRow, rowMap,
                   collapsed>>

\* The WebSocket client's callback for a state update.
OnStateUpdate(update) ==
    /\ StateUpdate(update)
    /\ UNCHANGED <<lastIds, wsLog>>

NextMain ==
    \/ \E definition \in Definitions : ApplyDefinition(definition)
    \/ \E i \in 1..MaxNodes : RowClick(i)
    \/ \E id \in Ids : Pick(id)
    \/ \E update \in Updates : OnStateUpdate(update)
    \/ \E filePath \in Paths : LoadResolved(filePath)
    \/ \E filePath \in Paths : LoadRejected(filePath)

SpecMain == Init /\ [][NextMain]_vars

\* The message path alone: definitions and state updates from the WebSocket,
\* and the loads they start.
NextBroadcast ==
    \/ \E definition \in Definitions : ApplyDefinition(definition)
    \/ \E update \in Updates : OnStateUpdate(update)
    \/ \E filePath \in Paths : LoadResolved(filePath)

SpecBroadcast == Init /\ [][NextBroadcast]_vars

\* The details panel under selections and state updates.
PlainB == Component("b", "link", "a", Null, Null)

PanelDefinitions == {[components |-> <<PlainA, PlainB>>]}

\* State entries of axes: id and position (thousandths of a degree).
PanelEntry(id, position) ==
    [id |-> id, matrix |-> NoMatrix, position |-> position]

PanelEntries ==
    {PanelEntry("a", 1004), PanelEntry("a", 2000),
     PanelEntry("b", 1006), PanelEntry("b", 2000)}

PanelUpdates ==
    {[components |-> s] : s \in SeqsUpTo(PanelEntries, MaxEntries)}

PanelStateUpdate(update) ==
    /\ StateUpdate(update)
    /\ lastIds' = UpdateIds(update)
    /\ UNCHANGED wsLog

NextPanel ==
    \/ \E definition \in PanelDefinitions : ApplyDefinition(definition)
    \/ \E i \in 1..MaxNodes : RowClick(i)
    \/ \E update \in PanelUpdates : PanelStateUpdate(update)

SpecPanel == Init /\ [][NextPanel]_vars

\* ------------------------------------------------- scene tree, row by row

PlainC == Component("c", "link", "b", Null, Null)

PlainD == Component("d", "link", "a", Null, Null)

\* A chain a > b > c, and a root with the two children b and d.
TreeDefinitions ==
    {[components |-> <<PlainA, PlainB, PlainC>>],
     [components |-> <<PlainB, PlainD, PlainA>>]}

TreeIds == {"a", "b", "c", "d"}

\* A row can be clicked when every list above it is expanded.
Visible(comps, coll, id) == TreeAncestors(comps, id) \cap coll = {}

\* A click on the row of the i-th component, outside its toggle.
VisibleRowClick(i) ==
    /\ i \in DOMAIN allComponents
    /\ Visible(allComponents, collapsed, allComponents[i].id)
    /\ RowClick(i)

\* A click on the toggle of row id: the toggle's listener, if the row has
\* children, flips the list; the row's listener returns at its first line.
ToggleClick(id) ==
    /\ id \in rowMap
    /\ Visible(allComponents, collapsed, id)
    /\ collapsed' = IF HasChildren(allComponents, id)
                    THEN toggleCollapsed(collapsed, id)
                    ELSE collapsed
    /\ UNCHANGED <<sceneVars, snapshotVars, restVars, allComponents,
                   detailsComponents, detailsSelectedId, stateMap, received,
                   moved, selectedRow, rowMap, stateSection>>

\* panels/scene_tree.js mountSceneTree and the rows buildNode creates.
legacyMountSceneTree(comps) ==
    [comps |-> comps, collapsed |-> mountCollapsed(comps),
     selected |-> Null, shown |-> Null]

\* panels/scene_tree.js, the row's click listener for a click outside the
\* toggle (lines 84-96): the row's list is toggled, the row is selected and
\* onSelect is called.
legacyRowClick(tree, id) ==
    [tree EXCEPT !.collapsed = IF HasChildren(tree.comps, id)
                               THEN toggleCollapsed(tree.collapsed, id)
                               ELSE tree.collapsed,
                 !.selected = id,
                 !.shown = id]

\* panels/scene_tree.js, a click on the toggle (lines 85 and 109-112).
legacyToggleClick(tree, id) ==
    [tree EXCEPT !.collapsed = IF HasChildren(tree.comps, id)
                               THEN toggleCollapsed(tree.collapsed, id)
                               ELSE tree.collapsed]

\* The definition callback of the main.js that mounts this tree:
\* buildFromDefinition, then mountSceneTree(definition, showComponentDetails).
LegacyOnDefinition(definition) ==
    /\ CanBuild(definition)
    /\ SetScene(AfterBuild(definition))
    /\ appliedIds' = DefIds(definition)
    /\ legacyTree' = legacyMountSceneTree(definition.components)
    /\ UNCHANGED <<snapshotVars, mainVars, earlyRest, legacyRest>>

LegacyRowClick(id) ==
    /\ id \in mountSceneTree(legacyTree.comps)
    /\ Visible(legacyTree.comps, legacyTree.collapsed, id)
    /\ legacyTree' = legacyRowClick(legacyTree, id)
    /\ UNCHANGED <<earlyVars, legacyRest>>

LegacyToggleClick(id) ==
    /\ id \in mountSceneTree(legacyTree.comps)
    /\ Visible(legacyTree.comps, legacyTree.collapsed, id)
    /\ legacyTree' = legacyToggleClick(legacyTree, id)
    /\ UNCHANGED <<earlyVars, legacyRest>>

NextTree ==
    \/ \E definition \in TreeDefinitions : ApplyDefinition(definition)
    \/ \E i \in 1..MaxNodes : VisibleRowClick(i)
    \/ \E id \in TreeIds : ToggleClick(id)
    \/ \E id \in TreeIds : Pick(id)
    \/ \E definition \in TreeDefinitions : LegacyOnDefinition(definition)
    \/ \E id \in TreeIds : LegacyRowClick(id)
    \/ \E id \in TreeIds : LegacyToggleClick(id)

SpecTree == Init /\ [][NextTree]_vars

\* ------------------------------------------------ websocket_client.js

\* this._url.
URL == "ws://host:8765"

\* Parsed JSON values: an object with its type and components members, or a
\* value that is no object.
JsonObject(type, comps) ==
    [kind |-> "object", type |-> type, components |-> comps]

JsonNull == [kind |-> "null", type |-> Null, components |-> <<>>]

JsonNumber == [kind |-> "number", type |-> Null, components |-> <<>>]

DefinitionMessage ==
    JsonObject("static_scene_definition", <<PlainA, PlainB>>)

UpdateMessage == JsonObject("state_update", <<PanelEntry("a", 1004)>>)

PingMessage == JsonObject("ping", <<>>)

\* The value of the `components` property of an object that has none
\* (undefined).
NoComponents == <<Component("undefined", Null, Null, Null, Null)>>

\* A definition message without a components list.
BareDefinitionMessage == JsonObject("static_scene_definition", NoComponents)

\* JSON.parse on the texts the server and a faulty peer send: the value, or
\* ok FALSE where it throws a SyntaxError.
JsonParse(text) ==
    CASE text = "definition.json" -> [ok |-> TRUE, value |-> DefinitionMessage]
      [] text = "update.json" -> [ok |-> TRUE, value |-> UpdateMessage]
      [] text = "{\"type\":\"static_scene_definition\"}" ->
            [ok |-> TRUE, value |-> BareDefinitionMessage]
      [] text = "{\"type\":\"ping\"}" -> [ok |-> TRUE, value |-> PingMessage]
      [] text = "null" -> [ok |-> TRUE, value |-> JsonNull]
      [] text = "42" -> [ok |-> TRUE, value |-> JsonNumber]
      [] OTHER -> [ok |-> FALSE, value |-> JsonNull]

ValidTexts == {"definition.json", "update.json"}

\* A definition message whose handler fails part-way.
FailingTexts == {"{\"type\":\"static_scene_definition\"}"}

\* Texts that are no JSON, JSON that is no object, and an unknown type.
BadTexts == {"{\"type\":", "null", "42", "{\"type\":\"ping\"}"}

\* Mutant of Dispatch: a message of unknown type goes to onUpdate.
DispatchUnknownToUpdate(text) ==
    LET parsed == JsonParse(text)
    IN  IF ~parsed.ok \/ parsed.value.kind = "null"
        THEN "dropped"
        ELSE IF parsed.value.type = "static_scene_definition"
             THEN "definition"
             ELSE "update"

\* onmessage (lines 29-43): the callback the message goes to; "dropped" when
\* JSON.parse or the read of message.type throws into the catch, or the type
\* is unknown, each of which logs a warning.
Dispatch(text) ==
    LET parsed == JsonParse(text)
    IN  IF ~parsed.ok \/ parsed.value.kind = "null"
        THEN "dropped"
        ELSE IF parsed.value.type = "static_scene_definition"
             THEN "definition"
             ELSE IF parsed.value.type = "state_update"
                  THEN "update"
                  ELSE "dropped"

\* A message event on an open socket.
OnMessage(text) ==
    /\ \E i \in DOMAIN sockets : sockets[i].state = "open"
    /\ Len(wsLog) < MaxMessages
    /\ wsLog' = Append(wsLog, Dispatch(text))
    /\ CASE Dispatch(text) = "definition" ->
              IF JsonParse(text).value.components = NoComponents
              THEN /\ RedefineThrows(JsonParse(text).value)
                   /\ UNCHANGED adds
              ELSE /\ Redefine(JsonParse(text).value)
                   /\ adds' = mountAddButton(adds)
         [] Dispatch(text) = "update" ->
              /\ StateUpdate(JsonParse(text).value)
              /\ UNCHANGED lastIds
         [] OTHER ->
              UNCHANGED <<earlyVars, socketRest, socketVars>>

\* The open event; onopen logs.
SocketOpened(i) ==
    /\ i \in DOMAIN sockets
    /\ sockets[i].state = "connecting"
    /\ sockets' = [sockets EXCEPT ![i].state = "open"]
    /\ UNCHANGED <<ws, timers, closeCalled, wsRaised, wsLog, earlyVars,
                   socketRest>>

\* WebSocket.close() on socket i: a connecting or open socket starts closing.
CloseSocket(socks, i) ==
    IF socks[i].state \in {"connecting", "open"}
    THEN [socks EXCEPT ![i].state = "closing"]
    ELSE socks

\* The error event on socket i: onerror (lines 50-53) calls this._ws.close(),
\* which throws when this._ws is null; the browser fails the connection.
SocketErrored(i) ==
    /\ i \in DOMAIN sockets
    /\ sockets[i].state \in {"connecting", "open"}
    /\ sockets' = CloseSocket(IF ws = 0 THEN sockets
                                        ELSE CloseSocket(sockets, ws), i)
    /\ wsRaised' = (wsRaised \/ ws = 0)
    /\ UNCHANGED <<ws, timers, closeCalled, wsLog, earlyVars, socketRest>>

\* The server closes the connection of socket i.
ServerClosed(i) ==
    /\ i \in DOMAIN sockets
    /\ sockets[i].state = "open"
    /\ sockets' = [sockets EXCEPT ![i].state = "closing"]
    /\ UNCHANGED <<ws, timers, closeCalled, wsRaised, wsLog, earlyVars,
                   socketRest>>

\* Mutant of onclose: the handler runs twice per close event.
oncloseTwice(pendingTimers, handler) ==
    IF handler
    THEN Append(Append(pendingTimers, RECONNECT_DELAY), RECONNECT_DELAY)
    ELSE pendingTimers

\* Mutant of onclose: no timer is set.
oncloseNoTimer(pendingTimers, handler) == pendingTimers

\* The close event: the onclose handler of lines 45-48, if the socket still
\* has it, sets a timer of RECONNECT_DELAY.
onclose(pendingTimers, handler) ==
    IF handler THEN Append(pendingTimers, RECONNECT_DELAY) ELSE pendingTimers

CloseEvent(i) ==
    /\ i \in DOMAIN sockets
    /\ sockets[i].state = "closing"
    /\ sockets' = [sockets EXCEPT ![i].state = "closed"]
    /\ timers' = onclose(timers, sockets[i].onclose)
    /\ UNCHANGED <<ws, closeCalled, wsRaised, wsLog, earlyVars, socketRest>>

\* A reconnect timer fires: _connect() (lines 22-54) creates a WebSocket for
\* this._url and sets its handlers.
TimerFired ==
    /\ timers # <<>>
    /\ Len(sockets) < MaxSockets
    /\ timers' = Tail(timers)
    /\ sockets' = Append(sockets, [url |-> URL, state |-> "connecting",
                                   onclose |-> TRUE])
    /\ ws' = Len(sockets) + 1
    /\ UNCHANGED <<closeCalled, wsRaised, wsLog, earlyVars, socketRest>>

\* close() (lines 56-62).
ClientClose ==
    /\ closeCalled' = TRUE
    /\ IF ws # 0
       THEN /\ sockets' = CloseSocket([sockets EXCEPT ![ws].onclose = FALSE],
                                      ws)
            /\ ws' = 0
       ELSE UNCHANGED <<sockets, ws>>
    /\ UNCHANGED <<timers, wsRaised, wsLog, earlyVars, socketRest>>

\* The client while nobody calls close().
NextClient ==
    \/ \E text \in ValidTexts \cup BadTexts : OnMessage(text)
    \/ \E i \in 1..MaxSockets : SocketOpened(i)
    \/ \E i \in 1..MaxSockets : SocketErrored(i)
    \/ \E i \in 1..MaxSockets : ServerClosed(i)
    \/ \E i \in 1..MaxSockets : CloseEvent(i)
    \/ TimerFired

\* The browser dispatches the close event of a closing socket and fires a
\* timer that is due.
SpecClient ==
    /\ Init
    /\ [][NextClient]_vars
    /\ WF_vars(\E i \in 1..MaxSockets : CloseEvent(i))
    /\ WF_vars(TimerFired)

NextSocket ==
    \/ NextClient
    \/ ClientClose

SpecSocket == Init /\ [][NextSocket]_vars

\* The client when definition messages without a components list arrive too.
NextFailing ==
    \/ NextClient
    \/ \E text \in FailingTexts : OnMessage(text)

SpecFailing == Init /\ [][NextFailing]_vars

\* ------------------------------------------- main.js (v3), onAddRobot

\* The device files GET /api/devices/robots may list.
Devices == {"ur5.json", "scara.json"}

DeviceLists == {<<>>, <<"ur5.json", "scara.json">>}

\* The definitions GET /api/scene/definition may answer with.
AddDefinitions ==
    {[components |-> <<PlainA>>], [components |-> <<PlainA, PlainB>>]}

\* Mutant of onAddRobot: the POST is not awaited, so the definition fetch is
\* issued in the same step.
onAddRobotNoAwait(filename) ==
    [device |-> filename, post |-> "pending", get |-> "pending"]

\* onAddRobot(filename) up to its first await: the POST of the device is in
\* flight and rebuildFromServer has not been called.
onAddRobot(filename) ==
    [device |-> filename, post |-> "pending", get |-> "none"]

\* The pickers a click on the current "+" button leaves: the handler removes
\* the first (lines 228-232), and the outside-click listener of every other
\* picker removes it unless the button is its anchor (lines 271-276).
afterButtonClick(pickers) ==
    SelectSeq(Tail(pickers), LAMBDA picker : ~picker.stale)

\* A click on the "+" button, _showRobotPicker lines 226-239: a picker in the
\* document is removed, otherwise the list of devices is requested.
AddButtonClick ==
    /\ adds.button
    /\ IF adds.pickers # <<>>
       THEN adds' = [adds EXCEPT !.pickers = afterButtonClick(@)]
       ELSE /\ Len(adds.fetching) < MaxPickers
            /\ adds' = [adds EXCEPT !.fetching = Append(@, FALSE)]
    /\ UNCHANGED <<earlyVars, addRest>>

\* The list of devices of the i-th request arrived (lines 241-277): a picker
\* with one item per device is appended to the document body, and its
\* outside-click listener is registered.
DevicesFetched(i, robots) ==
    /\ i \in DOMAIN adds.fetching
    /\ adds' = [adds EXCEPT
                   !.fetching = Without(@, i),
                   !.pickers = Append(@, [devices |-> robots,
                                          stale |-> adds.fetching[i]])]
    /\ UNCHANGED <<earlyVars, addRest>>

\* The i-th request for the list failed (the catch of lines 235-239).
DevicesFailed(i) ==
    /\ i \in DOMAIN adds.fetching
    /\ adds' = [adds EXCEPT !.fetching = Without(@, i)]
    /\ UNCHANGED <<earlyVars, addRest>>

\* A click outside the pickers and the button (lines 271-276): the listener
\* of every picker removes it.
OutsideClick ==
    /\ adds.pickers # <<>>
    /\ adds' = [adds EXCEPT !.pickers = <<>>]
    /\ UNCHANGED <<earlyVars, addRest>>

\* A click on the k-th item of picker p (lines 257-260): the picker is
\* removed and onAddRobot runs up to its first await; the click is outside
\* every other picker.
ChooseDevice(p, k) ==
    /\ p \in DOMAIN adds.pickers
    /\ k \in DOMAIN adds.pickers[p].devices
    /\ Len(adds.runs) < MaxAdds
    /\ adds' = [adds EXCEPT
                   !.pickers = <<>>,
                   !.runs = Append(@, onAddRobot(adds.pickers[p].devices[k]))]
    /\ UNCHANGED <<earlyVars, addRest>>

\* The POST of run i got its response, whatever its HTTP status: fetch
\* resolves, onAddRobot resumes and rebuildFromServer issues the definition
\* fetch (lines 152 and 163).
OnAddRobotPosted(i) ==
    /\ i \in DOMAIN adds.runs
    /\ adds.runs[i].post = "pending"
    /\ adds' = [adds EXCEPT !.runs[i].post = "done",
                            !.runs[i].get = "pending"]
    /\ UNCHANGED <<earlyVars, addRest>>

\* The POST of run i failed on the network: the await throws and onAddRobot
\* ends without calling rebuildFromServer.
OnAddRobotPostFailed(i) ==
    /\ i \in DOMAIN adds.runs
    /\ adds.runs[i].post = "pending"
    /\ adds' = [adds EXCEPT !.runs[i].post = "failed"]
    /\ UNCHANGED <<earlyVars, addRest>>

\* rebuildFromServer after its await (lines 152-153): the definition of run i
\* arrived and is applied.
RebuildFromServer(i, definition) ==
    /\ i \in DOMAIN adds.runs
    /\ adds.runs[i].get = "pending"
    /\ Redefine(definition)
    /\ adds' = mountAddButton([adds EXCEPT !.runs[i].get = "done"])
    /\ UNCHANGED wsLog

\* The definition fetch of run i failed or its body is no JSON: nothing is
\* applied.
RebuildFailed(i) ==
    /\ i \in DOMAIN adds.runs
    /\ adds.runs[i].get = "pending"
    /\ adds' = [adds EXCEPT !.runs[i].get = "failed"]
    /\ UNCHANGED <<earlyVars, addRest>>

NextAdd ==
    \/ \E definition \in AddDefinitions : ApplyDefinition(definition)
    \/ AddButtonClick
    \/ \E i \in 1..MaxPickers, robots \in DeviceLists :
          DevicesFetched(i, robots)
    \/ \E i \in 1..MaxPickers : DevicesFailed(i)
    \/ OutsideClick
    \/ \E p \in 1..MaxPickers, k \in 1..Cardinality(Devices) :
          ChooseDevice(p, k)
    \/ \E i \in 1..MaxAdds : OnAddRobotPosted(i)
    \/ \E i \in 1..MaxAdds : OnAddRobotPostFailed(i)
    \/ \E i \in 1..MaxAdds, definition \in AddDefinitions :
          RebuildFromServer(i, definition)
    \/ \E i \in 1..MaxAdds : RebuildFailed(i)

SpecAdd == Init /\ [][NextAdd]_vars

\* State updates while robots are added.
SyncUpdates ==
    {[components |-> <<[id |-> "b", matrix |-> M1]>>],
     [components |-> <<[id |-> "a", matrix |-> M2],
                       [id |-> "c", matrix |-> M1]>>]}

\* main.js under definition messages, state updates and onAddRobot runs
\* whose responses arrive at any time.
NextSync ==
    \/ \E definition \in AddDefinitions : ApplyDefinition(definition)
    \/ \E update \in SyncUpdates : OnStateUpdate(update)
    \/ AddButtonClick
    \/ \E i \in 1..MaxPickers : DevicesFetched(i, <<"ur5.json">>)
    \/ \E p \in 1..MaxPickers : ChooseDevice(p, 1)
    \/ \E i \in 1..MaxAdds : OnAddRobotPosted(i)
    \/ \E i \in 1..MaxAdds, definition \in AddDefinitions :
          RebuildFromServer(i, definition)

SpecSync == Init /\ [][NextSync]_vars

\* ------------------------------------------ models/three_axis_robot.js

\* The meshes of robot.glb in traversal order (the file holds three bodies).
RobotMeshes == <<"base", "link1", "link2">>

\* extractRobotBodies(model) (45-71): the three bodies, a placeholder where
\* the asset has fewer than three meshes.
extractRobotBodies(meshes) ==
    [base |-> IF Len(meshes) >= 1 THEN meshes[1] ELSE "placeholder",
     link1 |-> IF Len(meshes) >= 2 THEN meshes[2] ELSE "placeholder",
     link2 |-> IF Len(meshes) >= 3 THEN meshes[3] ELSE "placeholder"]

\* The body a constructor attaches (lines 94 and 122).
RobotBody(ctor) ==
    IF ctor = "RobotLink"
    THEN extractRobotBodies(RobotMeshes).link1
    ELSE extractRobotBodies(RobotMeshes).base

\* loadRobotModel (19-38): loader.load is called whenever the cache is empty.
LoadsStarted(cache, loads) ==
    IF cache # Null THEN loads ELSE loads + 1

\* new RobotLink() / new RobotJoint(): the group gets its AxesHelper; with the
\* cache filled the clone resolves and the mesh is added in the microtask that
\* follows the constructor, otherwise the instance waits for its own load.
NewRobotInstance(ctor) ==
    /\ Len(robotInstances) < MaxInstances
    /\ robotLoads' = LoadsStarted(robotModelCache, robotLoads)
    /\ robotInstances' = Append(robotInstances,
            IF robotModelCache # Null
            THEN [ctor |-> ctor, children |-> <<"AxesHelper", RobotBody(ctor)>>,
                  meshReady |-> TRUE, loading |-> FALSE]
            ELSE [ctor |-> ctor, children |-> <<"AxesHelper">>,
                  meshReady |-> FALSE, loading |-> TRUE])
    /\ UNCHANGED <<robotModelCache, sceneVars, snapshotVars, mainVars,
                   robotRest>>

NewRobotLink == NewRobotInstance("RobotLink")

NewRobotJoint == NewRobotInstance("RobotJoint")

\* The onLoad callback of instance i's load (27-30), then its .then handler.
RobotLoaded(i) ==
    /\ i \in DOMAIN robotInstances
    /\ robotInstances[i].loading
    /\ robotModelCache' = "gltf.scene"
    /\ robotInstances' = [robotInstances EXCEPT
            ![i].children = Append(@, RobotBody(robotInstances[i].ctor)),
            ![i].meshReady = TRUE,
            ![i].loading = FALSE]
    /\ UNCHANGED <<robotLoads, sceneVars, snapshotVars, mainVars, robotRest>>

\* The onError callback of instance i's load (32-35), then its .catch handler.
RobotLoadFailed(i) ==
    /\ i \in DOMAIN robotInstances
    /\ robotInstances[i].loading
    /\ robotInstances' = [robotInstances EXCEPT
            ![i].children = Append(@, "placeholder"),
            ![i].loading = FALSE]
    /\ UNCHANGED <<robotModelCache, robotLoads, sceneVars, snapshotVars,
                   mainVars, robotRest>>

NextRobot ==
    \/ NewRobotLink
    \/ NewRobotJoint
    \/ \E i \in 1..MaxInstances : RobotLoaded(i)
    \/ \E i \in 1..MaxInstances : RobotLoadFailed(i)

SpecRobot == Init /\ [][NextRobot]_vars

\* ------------------------------------------------------ malformed matrices

\* A matrix array that is too short: present, but not sixteen numbers.
ShortMatrix == <<1, 0, 0>>

MalformedEntries ==
    { [id |-> "a", matrix |-> ShortMatrix], [id |-> "a", matrix |-> M1],
      [id |-> "b", matrix |-> ShortMatrix] }

\* state_update messages with malformed matrices.
MalformedUpdates ==
    {[components |-> s] : s \in SeqsUpTo(MalformedEntries, MaxEntries)}

NextMalformed ==
    \/ \E definition \in Definitions : BuildFromDefinition(definition)
    \/ \E update \in MalformedUpdates : UpdateFromState(update)
    \/ \E filePath \in Paths : LoadResolved(filePath)
    \/ \E filePath \in Paths : LoadRejected(filePath)

SpecMalformed == Init /\ [][NextMalformed]_vars

\* ------------------------------------------------- parent chains (A, B, C)

ChainA == Component("a", "link", Null, Null, Null)

ChainB == Component("b", "link", "a", Null, Null)

ChainC == Component("c", "link", "b", Null, Null)

\* The six orders of a three-element sequence.
Orders(x, y, z) ==
    {<<x, y, z>>, <<x, z, y>>, <<y, x, z>>, <<y, z, x>>, <<z, x, y>>,
     <<z, y, x>>}

\* Definitions that deliver A(parent=null), B(parent=A), C(parent=B) in every
\* order.
ChainDefinitions ==
    {[components |-> comps] : comps \in Orders(ChainA, ChainB, ChainC)}

ChainEntry(name, parent) ==
    [name |-> name, type |-> "Link", matrix |-> NoMatrix, parent |-> parent]

\* Flat snapshots that deliver the same chain in every order.
ChainSnapshots ==
    Orders(ChainEntry("a", Null), ChainEntry("b", "a"),
                 ChainEntry("c", "b"))

\* The parent of every indexed node: the name of the parent node, or "scene".
HierarchyOf(s, nodes) ==
    [id \in DOMAIN s.components |-> nodes[s.components[id]].parent]

NextHierarchy ==
    \/ \E definition \in ChainDefinitions : BuildFromDefinition(definition)
    \/ \E data \in ChainSnapshots : SyncFromAPI(data)
    \/ \E update \in Updates : UpdateFromState(update)

SpecHierarchy == Init /\ [][NextHierarchy]_vars

\* ----------------------------------------- render loop and event loop

\* The messages that arrive while the render loop is observed.
FrameUpdates ==
    { [components |-> <<[id |-> "a", matrix |-> M1],
                        [id |-> "b", matrix |-> M1]>>],
      [components |-> <<[id |-> "a", matrix |-> M2],
                        [id |-> "a", matrix |-> NoMatrix]>>] }

FrameSnapshots ==
    { <<SnapshotEntry("a", "AxisRotor", M1), SnapshotEntry("b", "Link", M2)>>,
      <<>> }

IdleStack == [op |-> "idle", todo |-> <<>>]

\* What is left of the reconciliation on the stack, run to its end.
Finished ==
    IF running.op = "build"
    THEN [scene |-> Drain(CreateComponents(Scene, running.todo)), snap |-> Snap]
    ELSE IF running.op = "update"
    THEN [scene |-> UpdateEntries(Scene, running.todo), snap |-> Snap]
    ELSE IF running.op = "snapshot"
    THEN [scene |-> Scene,
          snap |-> RemoveUnseen(SnapshotEntriesLoop(Snap, running.todo),
                                running.seen)]
    ELSE [scene |-> Scene, snap |-> Snap]

\* The scene graph is that of a completed reconciliation: nothing that the
\* handler on the stack still has to do would change the index or a node.
Whole ==
    /\ Finished.scene.components = components
    /\ Finished.scene.groups = groups
    /\ Finished.snap = Snap

\* Mutant of CanTick: the frame callback may run while a handler is on the
\* stack.
CanTickAnytime == TRUE

\* start() (329-336): tick is a requestAnimationFrame callback, which the
\* event loop runs only when no handler is on the stack.
CanTick == running.op = "idle"

\* tick: renderer.render(scene, camera) draws the graph as it is.
Tick ==
    /\ CanTick
    /\ drawn' = IF Whole THEN "whole" ELSE "torn"
    /\ UNCHANGED <<sceneVars, snapshotVars, mainVars, frameRest, running>>

\* buildFromDefinition is entered and its clear loop has run (153-162).
BeginBuild(definition) ==
    /\ running.op = "idle"
    /\ CanBuild(definition)
    /\ SetScene(Collect([ClearComponents(Scene) EXCEPT !.selectedId = Null]))
    /\ appliedIds' = DefIds(definition)
    /\ running' = [op |-> "build", todo |-> definition.components]
    /\ UNCHANGED <<snapshotVars, mainVars, frameRest, drawn>>

\* One iteration of the create loop (165-195).
StepBuild ==
    /\ running.op = "build"
    /\ running.todo # <<>>
    /\ SetScene(CreateComponent(Scene, Head(running.todo)))
    /\ running' = [running EXCEPT !.todo = Tail(@)]
    /\ UNCHANGED <<appliedIds, snapshotVars, mainVars, frameRest, drawn>>

\* buildFromDefinition returns; the microtasks of settled loads run.
EndBuild ==
    /\ running.op = "build"
    /\ running.todo = <<>>
    /\ SetScene(Drain(Scene))
    /\ running' = IdleStack
    /\ UNCHANGED <<appliedIds, snapshotVars, mainVars, frameRest, drawn>>

\* updateFromState is entered (202-204).
BeginUpdate(update) ==
    /\ running.op = "idle"
    /\ running' = [op |-> "update", todo |-> update.components]
    /\ UNCHANGED <<sceneVars, snapshotVars, mainVars, frameRest, drawn>>

\* One iteration of the loop over update.components (204-227), or the return.
StepUpdate ==
    /\ running.op = "update"
    /\ IF running.todo = <<>>
       THEN /\ running' = IdleStack
            /\ UNCHANGED sceneVars
       ELSE /\ SetScene(UpdateEntry(Scene, Head(running.todo)))
            /\ running' = [running EXCEPT !.todo = Tail(@)]
            /\ UNCHANGED appliedIds
    /\ UNCHANGED <<snapshotVars, mainVars, frameRest, drawn>>

\* _applySnapshot is entered (part_004 107-108).
BeginSnapshot(data) ==
    /\ running.op = "idle"
    /\ Len(applySnapshot(Snap, data).models) <= MaxModels
    /\ running' = [op |-> "snapshot", todo |-> data, seen |-> DataNames(data)]
    /\ UNCHANGED <<sceneVars, snapshotVars, mainVars, frameRest, drawn>>

\* One iteration of the loop over the entries (111-142), or the removal loop
\* and the return (144-152).
StepSnapshot ==
    /\ running.op = "snapshot"
    /\ IF running.todo = <<>>
       THEN /\ snapComponents' = RemoveUnseen(Snap, running.seen).components
            /\ models' = RemoveUnseen(Snap, running.seen).models
            /\ running' = IdleStack
       ELSE /\ snapComponents' = ApplyEntry(Snap, Head(running.todo)).components
            /\ models' = ApplyEntry(Snap, Head(running.todo)).models
            /\ running' = [running EXCEPT !.todo = Tail(@)]
    /\ UNCHANGED <<sceneVars, legacyComponents, legacyModels, mainVars,
                   frameRest, drawn>>

\* A load settles: its callback is a task of its own.
FrameLoadResolved(filePath) ==
    /\ running.op = "idle"
    /\ LoadResolved(filePath)

NextFrame ==
    \/ Tick
    \/ \E definition \in Definitions : BeginBuild(definition)
    \/ StepBuild
    \/ EndBuild
    \/ \E update \in FrameUpdates : BeginUpdate(update)
    \/ StepUpdate
    \/ \E data \in FrameSnapshots : BeginSnapshot(data)
    \/ StepSnapshot
    \/ \E filePath \in Paths : FrameLoadResolved(filePath)

SpecFrame == Init /\ [][NextFrame]_vars

\* ------------------------------------------------------------- setPicking

Coords == 0..MaxCoord

\* What the ray hits: the id _findComponentId finds, or nothing.
PickTargets == Ids \cup {Null}

\* Mutant of IsDrag: a release exactly 5 px away is a drag as well.
IsDragFromThreshold(dx, dy) == dx * dx + dy * dy >= 25

\* scene.js line 264: the drag threshold.
IsDrag(dx, dy) == dx * dx + dy * dy > 25

\* The pointerdown listener (257-259).
PointerDown(x, y) ==
    /\ downPos' = <<x, y>>
    /\ UNCHANGED <<lastUp, sceneVars, snapshotVars, mainVars, pointerRest>>

\* The pointerup listener (261-282) for a release at (x, y) whose ray, if it
\* is cast, hits `target`.
PointerUp(x, y, target) ==
    /\ downPos' = <<>>
    /\ lastUp' =
        IF downPos = <<>>
        THEN [armed |-> FALSE, dist2 |-> 0, cast |-> FALSE, picked |-> Null]
        ELSE LET dx == x - downPos[1]
                 dy == y - downPos[2]
             IN  [armed |-> TRUE,
                  dist2 |-> (x - downPos[1]) * (x - downPos[1])
                            + (y - downPos[2]) * (y - downPos[2]),
                  cast |-> ~IsDrag(dx, dy),
                  picked |-> IF IsDrag(dx, dy) THEN Null ELSE target]
    /\ UNCHANGED <<sceneVars, snapshotVars, mainVars, pointerRest>>

NextPointer ==
    \/ \E x, y \in Coords : PointerDown(x, y)
    \/ \E x, y \in Coords : \E target \in PickTargets : PointerUp(x, y, target)

SpecPointer == Init /\ [][NextPointer]_vars

\* ------------------------------------ details_panel.js, the jog section

\* A robot, its two-joint chain, a second joint mounted on the robot and a
\* link at the tip of the chain.
RobotR == Component("R", "serial_robot", Null, Null, Null)

JointJ1 == Component("J1", "joint", "R", Null, Null)

JointJ2 == Component("J2", "joint", "J1", Null, Null)

JointSide == Component("S", "joint", "R", Null, Null)

LinkTip == Component("T", "link", "J2", Null, Null)

JogPool == {RobotR, JointJ1, JointJ2, JointSide, LinkTip}

\* Flat component lists with unique ids, in every order.
JogLists ==
    {s \in SeqsUpTo(JogPool, MaxComponents) :
        \A i, j \in DOMAIN s : i # j => s[i] # s[j]}

\* setComponents(components), called with a new scene definition.
SetComponents(comps) ==
    /\ detailsComponents' = setComponents(comps)
    /\ UNCHANGED <<sceneVars, snapshotVars, restVars, allComponents,
                   detailsSelectedId, stateMap, received, moved,
                   selectedRow, rowMap, collapsed,
                   stateSection>>

\* showComponentDetails(component) for the i-th component of the list.
ShowComponentDetails(i) ==
    /\ i \in DOMAIN detailsComponents
    /\ detailsSelectedId' = showComponentDetails(detailsComponents[i])
    /\ jogRows' = jogSection(detailsComponents, detailsComponents[i])
    /\ jogRobotId' =
         attachedRobotId(detailsComponents, detailsComponents[i])
    /\ stateSection' = Waiting
    /\ UNCHANGED <<sceneVars, snapshotVars, robotVars, frameVars,
                   pointerVars, lateVars, allComponents, detailsComponents,
                   stateMap, received, moved, selectedRow, rowMap,
                   collapsed>>

NextJog ==
    \/ \E comps \in JogLists : SetComponents(comps)
    \/ \E i \in 1..(MaxComponents + 1) : ShowComponentDetails(i)

SpecJog == Init /\ [][NextJog]_vars

\* --------------------------------- details_panel.js, the walk of _findRobot

RobotQ == Component("Q", "serial_robot", "J1", Null, Null)

LinkQ == Component("LQ", "link", "Q", Null, Null)

\* The robot with its chain and tip link, and a second robot mounted on J1
\* with a link of its own.
WalkPool == {RobotR, JointJ1, JointJ2, LinkTip, RobotQ, LinkQ}

\* Flat component lists with unique ids, in every order; a list that lacks a
\* component's parent has a dangling parent reference.
WalkLists ==
    {s \in SeqsUpTo(WalkPool, MaxComponents) :
        \A i, j \in DOMAIN s : i # j => s[i] # s[j]}

IdleWalk ==
    [pc |-> "idle", component |-> NoComponent, current |-> NoComponent,
     result |-> NoComponent]

\* Lines 241-242: a robot is returned at once, anything else enters the loop.
WalkEnter(component) ==
    IF component.component_type = "serial_robot"
    THEN [pc |-> "done", component |-> component, current |-> NoComponent,
          result |-> component]
    ELSE [pc |-> "loop", component |-> component, current |-> component,
          result |-> NoComponent]

\* Mutant of WalkStep: a parent that is a robot is walked past.
WalkStepPastRobot(comps, w) ==
    IF w.current.parent = Null
    THEN [w EXCEPT !.pc = "done", !.result = NoComponent]
    ELSE LET parent == FindBy(comps, "id", w.current.parent)
         IN  IF parent = NoComponent
             THEN [w EXCEPT !.pc = "done", !.result = NoComponent]
             ELSE [w EXCEPT !.current = parent]

\* One evaluation of the loop condition and, if it holds, one iteration of
\* the body (lines 243-248); line 249 when the loop is left.
WalkStep(comps, w) ==
    IF w.current.parent = Null
    THEN [w EXCEPT !.pc = "done", !.result = NoComponent]
    ELSE LET parent == FindBy(comps, "id", w.current.parent)
         IN  IF parent = NoComponent
             THEN [w EXCEPT !.pc = "done", !.result = NoComponent]
             ELSE IF parent.component_type = "serial_robot"
                  THEN [w EXCEPT !.pc = "done", !.result = parent]
                  ELSE [w EXCEPT !.current = parent]

\* setComponents between two calls (the walk is synchronous).
SetWalkComponents(comps) ==
    /\ walk.pc = "idle"
    /\ detailsComponents' = setComponents(comps)
    /\ UNCHANGED <<sceneVars, snapshotVars, restVars, allComponents,
                   detailsSelectedId, stateMap, received, moved,
                   selectedRow, rowMap, collapsed,
                   stateSection>>

\* _findRobot(component) is called for the i-th component of the list.
FindRobotCall(i) ==
    /\ walk.pc = "idle"
    /\ i \in DOMAIN detailsComponents
    /\ walk' = WalkEnter(detailsComponents[i])
    /\ UNCHANGED <<earlyVars, walkRest>>

FindRobotStep ==
    /\ walk.pc = "loop"
    /\ walk' = WalkStep(detailsComponents, walk)
    /\ UNCHANGED <<earlyVars, walkRest>>

\* The call has returned.
FindRobotReturn ==
    /\ walk.pc = "done"
    /\ walk' = IdleWalk
    /\ UNCHANGED <<earlyVars, walkRest>>

NextWalk ==
    \/ \E comps \in WalkLists : SetWalkComponents(comps)
    \/ \E i \in 1..(MaxComponents + 1) : FindRobotCall(i)
    \/ FindRobotStep
    \/ FindRobotReturn

\* The loop runs on the main thread: once entered, its next iteration is
\* always executed.
SpecWalk == Init /\ [][NextWalk]_vars /\ WF_vars(FindRobotStep)

\* ------------------------- details_panel.js, the loop of _getRobotJoints

\* Joints whose parent references form a cycle, a joint that is its own
\* parent, and joints that share an id with the robot or with each other.
JointX == Component("X", "joint", "Y", Null, Null)

JointY == Component("Y", "joint", "X", Null, Null)

JointSelf == Component("Z", "joint", "Z", Null, Null)

JointNamedR == Component("R", "joint", "R", Null, Null)

JointJ1Again == Component("J1", "joint", "J2", Null, Null)

\* Component lists with unique ids: a chain, a branch at the robot, and
\* cycles among the joints.
UniqueChains ==
    { <<RobotR, JointJ1, JointJ2, LinkTip>>,
      <<JointJ2, JointSide, JointJ1, RobotR>>,
      <<RobotR, JointX, JointY>>,
      <<RobotR, JointJ1, JointSelf, JointX>>,
      <<JointY, JointX, JointJ1, RobotR>> }

\* Component lists in which an id occurs twice.
RepeatedIdChains ==
    { <<RobotR, JointNamedR>>,
      <<RobotR, JointJ1, JointJ2, JointJ1Again>>,
      <<RobotR, JointJ1, JointX, JointX>> }

UniqueIds(comps) ==
    \A i, j \in DOMAIN comps : comps[i].id = comps[j].id => i = j

\* Mutant of nextJoint: the joint is looked up by its id.
nextJointById(allJoints, parentId) == FindBy(allJoints, "id", parentId)

\* Line 264: allJoints.find(c => c.parent === parentId).
nextJoint(allJoints, parentId) == FindBy(allJoints, "parent", parentId)

\* Line 261: _components.filter(c => c.component_type === 'joint').
allJointsOf(comps) == SelectSeq(comps, LAMBDA c : c.component_type = "joint")

\* _getRobotJoints(robot) is called with the list's robot (lines 260-262).
GetRobotJointsCall(comps) ==
    /\ collect.pc # "loop"
    /\ collect' = [collect EXCEPT
                      !.pc = "loop",
                      !.comps = comps,
                      !.parentId =
                          FindBy(comps, "component_type", "serial_robot").id,
                      !.joints = <<>>]
    /\ UNCHANGED <<earlyVars, collectRest>>

\* One iteration of the while loop (lines 263-268), followed for MaxChain
\* joints.
GetRobotJointsStep ==
    /\ collect.pc = "loop"
    /\ nextJoint(allJointsOf(collect.comps), collect.parentId) # NoComponent
    /\ Len(collect.joints) < MaxChain
    /\ collect' =
         [collect EXCEPT
             !.joints =
                 Append(@, nextJoint(allJointsOf(collect.comps),
                                     collect.parentId)),
             !.parentId =
                 nextJoint(allJointsOf(collect.comps), collect.parentId).id]
    /\ UNCHANGED <<earlyVars, collectRest>>

\* The iteration that finds no joint: break, and return joints (265, 269).
GetRobotJointsReturn ==
    /\ collect.pc = "loop"
    /\ nextJoint(allJointsOf(collect.comps), collect.parentId) = NoComponent
    /\ collect' = [collect EXCEPT
                      !.pc = "done",
                      !.last = [comps |-> collect.comps,
                                joints |-> collect.joints]]
    /\ UNCHANGED <<earlyVars, collectRest>>

NextCollect ==
    \/ \E comps \in UniqueChains \cup RepeatedIdChains :
          GetRobotJointsCall(comps)
    \/ GetRobotJointsStep
    \/ GetRobotJointsReturn

SpecCollect ==
    /\ Init
    /\ [][NextCollect]_vars
    /\ WF_vars(GetRobotJointsStep)
    /\ WF_vars(GetRobotJointsReturn)

\* ---------------------------- details_panel.js, the jog buttons' listeners

NoButton == [joint |-> -1, dir |-> "none"]

\* The .jog-btn elements of the rendered rows: data-joint and data-dir.
Buttons == {[joint |-> jogRows[k].joint, dir |-> d] :
                k \in DOMAIN jogRows, d \in {"ccw", "cw"}}

\* Mutant of JogCommand: the joint is counted from 1.
JogCommandOneBased(robotId, jointIndex, direction) ==
    [robot |-> robotId, joint |-> jointIndex + 1, direction |-> direction]

\* The request of sendJog: POST /api/scene/<robotId>/jog with the body
\* {joint, direction}.
JogCommand(robotId, jointIndex, direction) ==
    [robot |-> robotId, joint |-> jointIndex, direction |-> direction]

\* sendJog(direction) of the button btn: the request is posted and its
\* promise gets the empty catch handler.
sendJog(btn, direction) ==
    /\ Len(sent) < MaxCommands
    /\ sent' = Append(sent, JogCommand(jogRobotId, btn.joint, direction))
    /\ pending' = Append(pending, [handled |-> TRUE])

\* The pointer moves onto a jog button; no listener is registered for it.
MouseEnter(btn) ==
    /\ over = NoButton
    /\ btn \in Buttons
    /\ over' = btn
    /\ UNCHANGED <<held, sent, pending, raised, earlyVars, buttonRest>>

\* mousedown on the button under the pointer.
MouseDown ==
    /\ over # NoButton
    /\ held = NoButton
    /\ sendJog(over, over.dir)
    /\ held' = over
    /\ UNCHANGED <<over, raised, earlyVars, buttonRest>>

\* mouseup on the button under the pointer, whether or not the press began
\* on it.
MouseUp ==
    /\ over # NoButton
    /\ sendJog(over, "stop")
    /\ held' = NoButton
    /\ UNCHANGED <<over, raised, earlyVars, buttonRest>>

\* mouseleave: the pointer moves off the button, pressed or not.
MouseLeave ==
    /\ over # NoButton
    /\ sendJog(over, "stop")
    /\ over' = NoButton
    /\ held' = NoButton
    /\ UNCHANGED <<raised, earlyVars, buttonRest>>

\* The oldest POST in flight is answered.
PostResolved ==
    /\ pending # <<>>
    /\ pending' = Tail(pending)
    /\ UNCHANGED <<over, held, sent, raised, earlyVars, buttonRest>>

\* The oldest POST in flight fails: its promise rejects.
PostRejected ==
    /\ pending # <<>>
    /\ pending' = Tail(pending)
    /\ raised' = (raised \/ ~Head(pending).handled)
    /\ UNCHANGED <<over, held, sent, earlyVars, buttonRest>>

\* The panels a robot's details are shown from.
ButtonLists == {<<RobotR, JointJ1, JointJ2>>, <<JointJ1, RobotQ>>}

\* A click on a tree row or in the viewport shows another component; the
\* pointer is then over no jog button.
NextButtons ==
    \/ \E comps \in ButtonLists :
          over = NoButton /\ SetComponents(comps)
    \/ \E i \in 1..MaxComponents :
          over = NoButton /\ ShowComponentDetails(i)
    \/ \E btn \in Buttons : MouseEnter(btn)
    \/ MouseDown
    \/ MouseUp
    \/ MouseLeave
    \/ PostResolved
    \/ PostRejected

SpecButtons == Init /\ [][NextButtons]_vars

\* ------------------------------------------------------- claims: Scene3D

\* C1: in every reachable state the key set of the index is the set of ids of
\* the definition applied last (empty before the first one), whatever updates,
\* selections and load completions have happened since.
C1_IndexFollowsDefinition == DOMAIN components = appliedIds

\* C1 witness: a definition without "a" was applied after one with "a" (whose
\* group is still held by its load), "b" has been selected and updated.
C1_Witness ==
    /\ appliedIds = {"b"}
    /\ \E k \in awaiting : groups[k.group].name = "a"
    /\ selectedId = "b"
    /\ groups[components["b"]].matrix = M1

\* C4: in every reachable state, every state update leaves the index as it
\* is (no key added, no group constructed), and every indexed id of the update
\* ends with the last matrix the update carries for it, whatever unknown ids
\* the update also names.
C4_UpdateNeverCreates ==
    \A u \in Updates :
       LET s == AfterUpdate(u)
       IN  /\ s.components = components
           /\ FreeSlots(s) = FreeSlots(Scene)
           /\ \A id \in UpdateIds(u) \cap DOMAIN components :
                 LET m == LastMatrix(u.components, id)
                 IN  s.groups[components[id]] =
                        IF m = NoMatrix THEN groups[components[id]]
                        ELSE ApplyMatrix(groups[components[id]], m)

\* C4 witness: "b" is not in the index and an update has been applied to "a".
C4_Witness ==
    /\ DOMAIN components = {"a"}
    /\ groups[components["a"]].matrix = M2
    /\ ~ groups[components["a"]].matrixAutoUpdate

\* C5: one id or none is selected, and no indexed component other than the
\* selected one has a mesh material whose emissive tint is on.
C5_OnlySelectedHighlighted ==
    /\ selectedId \in Ids \cup {Null}
    /\ \A id \in DOMAIN components :
          id # selectedId
             => MeshMaterials(groups[components[id]]) \cap emissive = {}

\* C5 witness: two components have meshes, "b" is selected and tinted.
C5_Witness ==
    /\ DOMAIN components = {"a", "b"}
    /\ selectedId = "b"
    /\ MeshMaterials(groups[components["a"]]) # {}
    /\ MeshMaterials(groups[components["b"]]) # {}
    /\ MeshMaterials(groups[components["b"]]) \subseteq emissive

\* C7: in every reachable state with a selected indexed component x, a state
\* update that names only other components leaves x selected, and its index
\* entry, transform and tint unchanged.
C7_UpdateKeepsSelection ==
    \A x \in DOMAIN components :
       selectedId = x =>
          \A u \in {v \in Updates : x \notin UpdateIds(v)} :
             LET s == AfterUpdate(u)
             IN  /\ s.selectedId = x
                 /\ x \in DOMAIN s.components
                 /\ s.components[x] = components[x]
                 /\ s.groups[components[x]] = groups[components[x]]
                 /\ s.emissive = emissive

\* C7 witness: "a" is selected and tinted and was never given a matrix, while
\* a state update has been applied to "b".
C7_Witness ==
    /\ DOMAIN components = {"a", "b"}
    /\ selectedId = "a"
    /\ MeshMaterials(groups[components["a"]]) # {}
    /\ MeshMaterials(groups[components["a"]]) \subseteq emissive
    /\ groups[components["a"]].matrixAutoUpdate
    /\ groups[components["b"]].matrix = M1

\* An id that was a component and is gone from the index: its group is still
\* held by the closure of its load.
RemovedIds ==
    {id \in Ids \ DOMAIN components :
        \E k \in awaiting : groups[k.group].name = id}

\* C8: a component absent from the next definition is detached and deleted
\* from the index, and selectComponent with its id then changes neither the
\* selected id nor the tint of any material.
C8_SelectRemovedIsNoOp ==
    [][/\ \A d \in Definitions :
            BuildFromDefinition(d) =>
               \A id \in DOMAIN components \ DefIds(d) :
                  /\ id \notin DOMAIN components'
                  /\ groups'[components[id]].parent # "scene"
       /\ \A id \in RemovedIds :
            SelectComponent(id) =>
               (selectedId' = selectedId /\ emissive' = emissive)]_vars

\* C9: when a load resolves, no mesh is attached to a group that has been
\* removed from the index.
C9_StaleLoadNotAttached ==
    [][\A filePath \in Paths :
         LoadResolved(filePath) =>
            \A k \in awaiting :
               k.group \notin Range(components)
                  => groups'[k.group].children = groups[k.group].children]_vars

\* C10: the loader is asked for a file path at most once, exactly when the
\* cache holds a promise for it, and every suspended caller awaits a path
\* that is in the cache.
C10_LoadedAtMostOnce ==
    /\ \A p \in Paths :
          loadRequests[p] = IF p \in DOMAIN modelCache THEN 1 ELSE 0
    /\ \A k \in awaiting : FilePath(k.file) \in DOMAIN modelCache

\* C10 witness: two callers await the same path and the loader was asked for
\* it once.
C10_Witness ==
    \E p \in Paths :
       /\ loadRequests[p] = 1
       /\ modelCache[p] = "pending"
       /\ Cardinality({k \in awaiting : FilePath(k.file) = p}) >= 2

\* The groups that exist: indexed ones and removed ones a load still holds.
LiveGroups == {g \in DOMAIN groups : groups[g].parent # "free"}

\* C12: no two groups hold a mesh with the same material, no mesh has the
\* material of the cached asset, and selectComponent(x) changes the emissive
\* state of no material of any component other than x and the component that
\* was selected before, nor that of the cached asset.
C12_FragmentsOwnMaterials ==
    /\ \A g, h \in LiveGroups :
            g # h => MeshMaterials(groups[g]) \cap MeshMaterials(groups[h]) = {}
    /\ \A g \in LiveGroups : SourceMaterial \notin MeshMaterials(groups[g])
    /\ SourceMaterial \notin emissive
    /\ \A x \in Ids :
            LET s == AfterSelect(x)
            IN  /\ SourceMaterial \notin s.emissive
                /\ \A y \in DOMAIN components \ {x, selectedId} :
                        MeshMaterials(groups[components[y]]) \cap s.emissive
                            = MeshMaterials(groups[components[y]]) \cap emissive

\* Two components carry a clone of the same body of the same file; "a" is
\* selected and tinted, "b" is not.
C12_Witness ==
    /\ DOMAIN components = {"a", "b"}
    /\ \A id \in {"a", "b"} :
            \E i \in DOMAIN groups[components[id]].children :
                groups[components[id]].children[i].name = "Body"
    /\ selectedId = "a"
    /\ MeshMaterials(groups[components["a"]]) \subseteq emissive
    /\ MeshMaterials(groups[components["b"]]) \cap emissive = {}

\* The components of a definition that name a CAD file and a body.
CadComponents(definition) ==
    {definition.components[i] : i \in {j \in DOMAIN definition.components :
        /\ definition.components[j].cad_file # Null
        /\ definition.components[j].cad_body # Null}}

\* The suspended loads whose group is in the index.
LiveLoads(s) == {k \in s.awaiting : k.group \in Range(s.components)}

\* C13: (a) when buildFromDefinition returns, every component with a CAD file
\* and body has its group in the index and attached to the scene, with its
\* load suspended and no mesh while the file is still loading; (b) a state
\* update that arrives while the load is pending is applied to that group;
\* (c) when the load resolves while the group is still indexed, the group has
\* exactly one mesh afterwards and its load is finished, so that no second
\* mesh can follow; no group ever has more than one mesh.
C13_NodeFirstMeshLater ==
    /\ \A g \in LiveGroups : Cardinality(MeshMaterials(groups[g])) <= 1
    /\ \A k \in awaiting : MeshMaterials(groups[k.group]) = {}
    /\ \A d \in {e \in Definitions : CanBuild(e)} :
            LET s == AfterBuild(d)
            IN  \A c \in CadComponents(d) :
                    /\ c.id \in DOMAIN s.components
                    /\ s.groups[s.components[c.id]].parent = "scene"
                    /\ s.modelCache[FilePath(c.cad_file)] = "pending"
                        => \E k \in s.awaiting :
                                /\ k.group = s.components[c.id]
                                /\ MeshMaterials(s.groups[k.group]) = {}
                    /\ s.modelCache[FilePath(c.cad_file)] = "fulfilled"
                        => Cardinality(MeshMaterials(
                                s.groups[s.components[c.id]])) = 1
    /\ \A k \in LiveLoads(Scene) :
            \A u \in Updates :
                LET m == LastMatrix(u.components, groups[k.group].name)
                IN  m # NoMatrix =>
                        AfterUpdate(u).groups[k.group] =
                            ApplyMatrix(groups[k.group], m)
    /\ \A filePath \in {p \in DOMAIN modelCache : modelCache[p] = "pending"} :
            LET s == AfterSettle(filePath, "fulfilled")
            IN  \A k \in LiveLoads(Scene) :
                    FilePath(k.file) = filePath =>
                        /\ Cardinality(MeshMaterials(s.groups[k.group])) = 1
                        /\ k \notin s.awaiting
                        /\ s.components = components

\* The load of "a" is still pending, "a" is indexed without a mesh, and a
\* state update has already moved it.
C13_Witness ==
    /\ "a" \in DOMAIN components
    /\ \E k \in awaiting : k.group = components["a"]
    /\ MeshMaterials(groups[components["a"]]) = {}
    /\ groups[components["a"]].matrix = M2
    /\ groups[components["a"]].parent = "scene"

\* ------------------------------------------------ claims: _applySnapshot

\* The models that are children of the scene.
SceneChildren(s) == {g \in DOMAIN s.models : s.models[g].parent = "scene"}

\* The names of a snapshot that get or keep a node: those that already have
\* one and those whose type has a constructor.
ImpliedNames(s, data, registry) ==
    {data[i].name : i \in {j \in DOMAIN data :
        data[j].name \in DOMAIN s.components \/ data[j].type \in registry}}

\* What must relate the scene after a snapshot (t) to the scene before (s).
NodeSetImplied(s, t, data, registry) ==
    /\ DOMAIN t.components = ImpliedNames(s, data, registry)
    /\ DOMAIN t.components \subseteq DataNames(data)
    /\ \A n \in DOMAIN t.components \cap DOMAIN s.components :
            t.components[n] = s.components[n]
    /\ \A n, m \in DOMAIN t.components :
            t.components[n] = t.components[m] => n = m
    /\ \A n \in DOMAIN t.components : t.models[t.components[n]].name = n
    /\ SceneChildren(t) = Range(t.components)

\* C2: whatever snapshots were applied before (S1), after the next snapshot S2
\* the index holds exactly the names of S2 that have a node, every name that
\* was indexed before and is in S2 keeps its node, no two names share a node,
\* and the scene's children are exactly the indexed nodes: no leftover, no
\* duplicate.  Both revisions of _applySnapshot.
C2_NodeSetFollowsSnapshot ==
    /\ SceneChildren(Snap) = Range(snapComponents)
    /\ SceneChildren(Legacy) = Range(legacyComponents)
    /\ \A data \in Snapshots :
            NodeSetImplied(Snap, applySnapshot(Snap, data), data, MODEL_MAP)
    /\ \A data \in LegacySnapshots :
            NodeSetImplied(Legacy, applySnapshotLegacy(Legacy, data), data,
                           LEGACY_MODEL_MAP)

\* "a" and "b" were created by one snapshot, a later one named only "b": "a" is
\* gone and "b" is still the second model constructed.
C2_Witness ==
    /\ DOMAIN snapComponents = {"b"}
    /\ snapComponents["b"] = 2
    /\ models[1] = Released
    /\ models[2].parent = "scene"
    /\ DOMAIN legacyComponents = {"b"}
    /\ legacyComponents["b"] = 2

\* C3: applying a snapshot a second time changes nothing: the index has the
\* same keys and the same node for each key, no model is constructed, and every
\* model has the same parent and the same transform.
C3_ApplyTwiceIsApplyOnce ==
    \A data \in Snapshots :
        LET once == applySnapshot(Snap, data)
            twice == applySnapshot(once, data)
        IN  /\ twice.components = once.components
            /\ twice.models = once.models

\* The scene is the result of a snapshot that gave both nodes a matrix, and
\* that snapshot is applied again.
C3_Witness ==
    \E data \in Snapshots :
        /\ DataNames(data) = Names
        /\ \A i \in DOMAIN data : data[i].matrix # NoMatrix
        /\ DOMAIN snapComponents = Names
        /\ models[snapComponents["a"]].matrix = M2
        /\ ~models[snapComponents["a"]].matrixAutoUpdate
        /\ applySnapshot(Snap, data) = Snap

\* ------------------------------------------------------- claims: main.js

\* C17: after any sequence of state updates, with any duplicate ids inside a
\* message, the details panel's state map holds for every id the last entry
\* received for it, and every live node has the transform of the last matrix
\* received for its id since it was created (an entry without a matrix leaves
\* the transform alone); a node that received none has the transform it was
\* created with.
C17_LastWriteWins ==
    /\ stateMap = received
    /\ DOMAIN moved \subseteq DOMAIN components
    /\ \A id \in DOMAIN components :
            LET group == groups[components[id]]
            IN  IF id \in DOMAIN moved
                THEN group = ApplyMatrix(group, moved[id])
                ELSE /\ group.matrix = IdentityMatrix
                     /\ group.matrixAutoUpdate

\* The last entry received for "a" has no matrix, the one before had M2 and
\* came after M1 in the same or an earlier message; "b" received M1.
C17_Witness ==
    /\ DOMAIN components = {"a", "b"}
    /\ DOMAIN stateMap = {"a", "b"}
    /\ stateMap["a"].matrix = NoMatrix
    /\ groups[components["a"]].matrix = M2
    /\ groups[components["b"]].matrix = M1

\* C6: applying a scene definition clears the selection in every subsystem:
\* Scene3D's selected id is null, no tree row is selected, and the details
\* panel holds no selected component id.
C6_DefinitionClearsSelection ==
    [][\A definition \in Definitions :
            ApplyDefinition(definition) =>
                /\ selectedId' = Null
                /\ selectedRow' = Null
                /\ detailsSelectedId' = Null]_vars

\* The entries of a snapshot without those that have neither a constructor
\* nor a node.
RECURSIVE WithoutUnknown(_, _, _)
WithoutUnknown(s, data, registry) ==
    IF data = <<>>
    THEN <<>>
    ELSE IF Head(data).name \notin DOMAIN s.components
            /\ Head(data).type \notin registry
         THEN WithoutUnknown(s, Tail(data), registry)
         ELSE <<Head(data)>> \o WithoutUnknown(s, Tail(data), registry)

\* The names of a snapshot that have neither a constructor nor a node.
UnknownNames(s, data, registry) ==
    {data[i].name : i \in {j \in DOMAIN data :
        /\ data[j].name \notin DOMAIN s.components
        /\ data[j].type \notin registry}}

\* C16: an entry whose type has no constructor and whose name has no node
\* creates no node, and the snapshot has the effect it would have without that
\* entry: the other entries are created and updated and the nodes the snapshot
\* does not name are removed.  Both revisions of _applySnapshot.
C16_UnknownTypeSkipped ==
    /\ \A data \in Snapshots :
            LET t == applySnapshot(Snap, data)
            IN  /\ UnknownNames(Snap, data, MODEL_MAP) \cap DOMAIN t.components
                        = {}
                /\ \A g \in DOMAIN t.models :
                        t.models[g].name
                            \notin UnknownNames(Snap, data, MODEL_MAP)
                /\ t = applySnapshot(Snap,
                            WithoutUnknown(Snap, data, MODEL_MAP))
    /\ \A data \in LegacySnapshots :
            LET t == applySnapshotLegacy(Legacy, data)
            IN  /\ UnknownNames(Legacy, data, LEGACY_MODEL_MAP)
                        \cap DOMAIN t.components = {}
                /\ t = applySnapshotLegacy(Legacy,
                            WithoutUnknown(Legacy, data, LEGACY_MODEL_MAP))

\* The scene is the result of a snapshot that names "a" first, with a type
\* that has no constructor, and then "b": only "b" has a node, and "a", which
\* had a node before, has none.
C16_Witness ==
    \E data \in Snapshots :
        /\ Len(data) = 2
        /\ data[1].name = "a"
        /\ data[1].type \notin MODEL_MAP
        /\ data[2].matrix = M2
        /\ DOMAIN snapComponents = {"b"}
        /\ models[snapComponents["b"]].matrix = M2
        /\ \E g \in DOMAIN models : models[g] = Released
        /\ applySnapshot(Snap, data) = Snap

\* ------------------------------------------- claims: three_axis_robot.js

\* C11: loadRobotModel asks the loader for robot.glb at most once, however
\* many RobotLink and RobotJoint instances are constructed, also when they are
\* constructed before the first load has completed.
C11_RobotLoadedAtMostOnce == robotLoads <= 1

\* ---------------------------------------------------- claims: hierarchy

\* The hierarchy A -> B -> C.
ChainHierarchy == [id \in {"a", "b", "c"} |->
    IF id = "a" THEN "scene" ELSE IF id = "b" THEN "a" ELSE "b"]

\* C14: in whatever order A(parent=null), B(parent=A), C(parent=B) are
\* delivered in one definition or one flat snapshot, A ends attached to the
\* scene root, B as a child of A's node and C as a child of B's node.
C14_ChainInAnyOrder ==
    /\ DOMAIN components = {"a", "b", "c"}
            => HierarchyOf(Scene, groups) = ChainHierarchy
    /\ DOMAIN snapComponents = {"a", "b", "c"}
            => HierarchyOf(Snap, models) = ChainHierarchy

\* ------------------------------------------ claims: malformed matrices

\* C15: a state update entry whose matrix is present but is not sixteen
\* numbers leaves the node as it is: matrix, position, rotation, scale and
\* matrixAutoUpdate keep their prior values.
C15_MalformedMatrixIgnored ==
    \A id \in DOMAIN components :
        LET u == [components |-> <<[id |-> id, matrix |-> ShortMatrix]>>]
        IN  updateFromState(Scene, u).groups[components[id]]
                = groups[components[id]]

\* ---------------------------------------------------- claims: render loop

C19_PickWithinFivePixels ==
    /\ lastUp.cast <=> (lastUp.armed /\ lastUp.dist2 <= 5 * 5)
    /\ lastUp.picked # Null => lastUp.cast
    /\ lastUp.dist2 > 5 * 5 => lastUp.picked = Null

\* A release exactly 5 px from the press (3 across, 4 down) picked "a".
C19_Witness ==
    /\ lastUp.armed
    /\ lastUp.dist2 = 25
    /\ lastUp.cast
    /\ lastUp.picked = "a"
    /\ downPos = <<>>

\* C20: _getRobotJoints returns the robot's joints root to tip: its first
\* element is a joint whose parent is the robot, every later element is a
\* joint whose parent is the element before it; for R, J1 (on R) and J2 (on
\* J1) the result is [J1, J2] in whatever order the list holds them; and the
\* jog rows are labelled J1, J2, ... with joint indices 0, 1, ... in that
\* order.  Checked for every component of the list the panel holds.
C20_JointsRootToTip ==
    \A c \in Range(detailsComponents) :
        LET robot == findRobot(detailsComponents, c)
            joints == getRobotJoints(detailsComponents, robot)
            rows == buildJogSection(detailsComponents, robot)
        IN  robot # NoComponent =>
              /\ \A k \in DOMAIN joints :
                    /\ joints[k] \in Range(detailsComponents)
                    /\ joints[k].component_type = "joint"
                    /\ joints[k].parent =
                         IF k = 1 THEN robot.id ELSE joints[k - 1].id
              /\ (/\ robot = RobotR
                  /\ {JointJ1, JointJ2} \subseteq Range(detailsComponents)
                  /\ JointSide \notin Range(detailsComponents))
                 => joints = <<JointJ1, JointJ2>>
              /\ DOMAIN rows = DOMAIN joints
              /\ \A k \in DOMAIN rows :
                    /\ rows[k].label = <<"J", k>>
                    /\ rows[k].joint = k - 1
                    /\ rows[k].jointId = joints[k].id

\* The panel holds J2, the robot and J1 in that order, J2 is shown, and the
\* jog section lists J1 as row 0 and J2 as row 1.
C20_Witness ==
    /\ detailsComponents = <<JointJ2, RobotR, JointJ1>>
    /\ detailsSelectedId = "J2"
    /\ jogRows = <<[label |-> <<"J", 1>>, joint |-> 0, jointId |-> "J1"],
                   [label |-> <<"J", 2>>, joint |-> 1, jointId |-> "J2"]>>

\* The n-th ancestor of c in comps (c itself for n = 0), NoComponent where the
\* chain has ended or names an id the list lacks.
RECURSIVE AncestorAt(_, _, _)
AncestorAt(comps, c, n) ==
    IF n = 0
    THEN c
    ELSE LET below == AncestorAt(comps, c, n - 1)
         IN  IF below = NoComponent \/ below.parent = Null
             THEN NoComponent
             ELSE FindBy(comps, "id", below.parent)

\* The nearest serial_robot among c and its ancestors, NoComponent if the
\* chain ends or dangles before one.
NearestRobot(comps, c) ==
    LET robotAt == {n \in 0..Len(comps) :
                      AncestorAt(comps, c, n).component_type = "serial_robot"}
    IN  IF robotAt = {}
        THEN NoComponent
        ELSE AncestorAt(comps, c,
                        CHOOSE n \in robotAt : \A k \in robotAt : n <= k)

\* C21: _findRobot terminates, and it returns the nearest serial_robot among
\* the component and its ancestors, or null when the parent chain ends or
\* names an id that the component list lacks before a robot is reached.
C21_FindRobotTerminates ==
    /\ [](walk.pc = "done" =>
            /\ walk.result = NearestRobot(detailsComponents, walk.component)
            /\ walk.result = findRobot(detailsComponents, walk.component))
    /\ (walk.pc = "loop") ~> (walk.pc = "done")

\* The walk from the tip link has climbed to J2, whose parent J1 the list
\* lacks, and has returned null.
C21_Witness ==
    /\ walk.pc = "done"
    /\ walk.component = LinkTip
    /\ walk.result = NoComponent
    /\ JointJ2 \in Range(detailsComponents)
    /\ JointJ1 \notin Range(detailsComponents)
    /\ RobotR \in Range(detailsComponents)

\* The cw and ccw commands among the commands sent.
Directional == {k \in DOMAIN sent : sent[k].direction \in {"cw", "ccw"}}

\* C22: a press on a jog button sends one command with the button's
\* direction and 0-based joint index to the robot shown; that command is the
\* last one sent while the button stays pressed and is followed by a stop
\* for the same joint when the button is released or left; a cw or ccw
\* command is sent only by a press; and a failed POST raises nothing.
C22_JogPressThenStop ==
    /\ [][/\ MouseDown =>
               /\ sent' = Append(sent, [robot |-> jogRobotId,
                                        joint |-> over.joint,
                                        direction |-> over.dir])
               /\ over \in Buttons
               /\ over.joint \in 0..(Len(jogRows) - 1)
          /\ (held # NoButton /\ (MouseUp \/ MouseLeave)) =>
               sent' = Append(sent, [robot |-> jogRobotId,
                                     joint |-> held.joint,
                                     direction |-> "stop"])
          /\ (Directional' # Directional) => MouseDown]_vars
    /\ [](/\ held # NoButton =>
               /\ sent # <<>>
               /\ sent[Len(sent)].joint = held.joint
               /\ sent[Len(sent)].direction = held.dir
          /\ \A k \in Directional :
               k < Len(sent) =>
                 /\ sent[k + 1].direction = "stop"
                 /\ sent[k + 1].joint = sent[k].joint
                 /\ sent[k + 1].robot = sent[k].robot
          /\ ~raised)

\* J2's cw button was pressed and released, one of the two POSTs has been
\* answered or has failed: the robot R got cw then stop for joint index 1.
C22_Witness ==
    /\ sent = <<[robot |-> "R", joint |-> 1, direction |-> "cw"],
                [robot |-> "R", joint |-> 1, direction |-> "stop"]>>
    /\ Len(pending) = 1
    /\ held = NoButton
    /\ ~raised

\* C23: the state map holds the last entry of every id in every update
\* received, whatever is selected; and a state update received while X is
\* selected and the map has an entry for X makes the state section show the
\* rows of X's most recent entry, also when the update has no entry for X.
C23_OutOfFocusUpdatesKept ==
    /\ [](stateMap = received)
    /\ [][\A update \in PanelUpdates :
            (/\ PanelStateUpdate(update)
             /\ detailsSelectedId # Null
             /\ detailsSelectedId \in DOMAIN received') =>
                stateSection' =
                    [shown |-> "entry",
                     rows |-> [k \in {"position"} |->
                        Format(received'[detailsSelectedId].position)]]]_vars

\* "b" received 1.006 while it was not shown; it is selected now, the last
\* update carried an entry for "a" only, and the section shows 1.01 for "b".
C23_Witness ==
    /\ detailsSelectedId = "b"
    /\ lastIds = {"a"}
    /\ stateSection.shown = "entry"
    /\ stateSection.rows = [k \in {"position"} |-> 101]
    /\ stateMap["b"].position = 1006

\* ---------------------------------------------------- claims: scene tree

\* The component's parent field names a component of the list.
Resolvable(comps, c) ==
    /\ c.parent # Null
    /\ \E j \in DOMAIN comps : comps[j].id = c.parent

\* C24: after mountSceneTree every component of the definition has a row: a
\* root row when its parent is absent or names an id the list lacks, a row
\* under its parent's row otherwise (so the parent has a row as well).
C24_UnresolvedParentIsRoot ==
    \A i \in DOMAIN allComponents :
        LET c == allComponents[i]
        IN  /\ c.id \in rowMap
            /\ Resolvable(allComponents, c) => c.parent \in rowMap

\* The tree with _rowMap: a toggle click changes at most the clicked row's
\* list and neither the selection nor what onSelect last showed; a row click
\* changes no list.
TreeClicksIndependent ==
    /\ \A id \in TreeIds :
          ToggleClick(id) =>
              /\ selectedRow' = selectedRow
              /\ detailsSelectedId' = detailsSelectedId
              /\ selectedId' = selectedId
              /\ collapsed' \ {id} = collapsed \ {id}
    /\ \A i \in 1..MaxNodes :
          VisibleRowClick(i) =>
              /\ collapsed' = collapsed
              /\ selectedRow' = allComponents[i].id
              /\ detailsSelectedId' = allComponents[i].id

\* The same for the tree of panels/scene_tree.js.
LegacyTreeClicksIndependent ==
    /\ \A id \in TreeIds :
          LegacyToggleClick(id) =>
              /\ legacyTree'.selected = legacyTree.selected
              /\ legacyTree'.shown = legacyTree.shown
              /\ legacyTree'.collapsed \ {id} = legacyTree.collapsed \ {id}
    /\ \A id \in TreeIds :
          LegacyRowClick(id) =>
              /\ legacyTree'.collapsed = legacyTree.collapsed
              /\ legacyTree'.selected = id
              /\ legacyTree'.shown = id

\* C25: expand/collapse is independent of selection: a click on a row's
\* toggle changes only that row's collapsed state, not the selected row and
\* not what onSelect was called with; a click on a row outside its toggle
\* selects the row and calls onSelect and changes no row's collapsed state.
C25_ToggleIndependentOfSelection ==
    [][TreeClicksIndependent /\ LegacyTreeClicksIndependent]_vars

\* The rows that carry the class st-selected: mountSceneTree builds new rows
\* without it and every listener moves it together with _selectedRow.
Marked == IF selectedRow = Null THEN {} ELSE {selectedRow}

C27_BadMessageDropped ==
    /\ [][\A text \in BadTexts :
            OnMessage(text) =>
                /\ wsLog' = Append(wsLog, "dropped")
                /\ UNCHANGED <<sceneVars, snapshotVars, mainVars, earlyRest,
                               walkVars, buttonVars, lastIds, legacyTree,
                               socketVars, adds>>]_vars
    /\ [][OnMessage("definition.json") =>
                /\ wsLog' = Append(wsLog, "definition")
                /\ allComponents' = <<PlainA, PlainB>>
                /\ DOMAIN components' = {"a", "b"}]_vars
    /\ [][OnMessage("update.json") =>
                /\ wsLog' = Append(wsLog, "update")
                /\ stateMap'["a"] = PanelEntry("a", 1004)]_vars
    /\ []((/\ \E i \in DOMAIN sockets : sockets[i].state = "open"
           /\ Len(wsLog) < MaxMessages)
          => ENABLED OnMessage("update.json"))

\* Two bad messages were dropped and the state update that followed was
\* dispatched, all on the first connection.
C27_Witness ==
    /\ wsLog = <<"dropped", "dropped", "update">>
    /\ DOMAIN stateMap = {"a"}
    /\ Len(sockets) = 1
    /\ sockets[1].state = "open"

\* C28: while nobody calls close(), every close of the connection, also one
\* that follows an error, is followed by a new connection attempt to the
\* same URL, made by a timer of 2 s, and this goes on for every later close
\* (up to the MaxSockets-th socket, where the model stops).
C28_AlwaysReconnects ==
    /\ [](\A k \in DOMAIN timers : timers[k] = 2000)
    /\ [][Len(sockets') > Len(sockets) =>
            /\ timers # <<>>
            /\ timers' = Tail(timers)
            /\ sockets'[Len(sockets')].url = sockets[1].url
            /\ sockets'[Len(sockets')].state = "connecting"]_vars
    /\ \A n \in 1..(MaxSockets - 1) :
          (Len(sockets) = n /\ sockets[n].state \in {"closing", "closed"})
             ~> (Len(sockets) > n)

\* The first connection failed with an error, the second was closed by the
\* server, and the third attempt is under way.
C28_Witness ==
    /\ Len(sockets) = 3
    /\ sockets[1].state = "closed"
    /\ sockets[2].state = "closed"
    /\ sockets[3].state = "connecting"
    /\ ws = 3
    /\ ~closeCalled

\* C29: once close() has been called the client opens no WebSocket any more,
\* whenever it was called: with the connection open, closing, or closed with
\* a reconnect timer pending.
C29_CloseStopsReconnect ==
    [][closeCalled => Len(sockets') = Len(sockets)]_vars

\* The definition d is what the scene, the details panel and the tree hold
\* after this step.
AppliedNow(d) ==
    /\ allComponents' = d.components
    /\ detailsComponents' = setComponents(d.components)
    /\ appliedIds' = DefIds(d)
    /\ components' = AfterBuild(d).components
    /\ rowMap' = mountSceneTree(d.components)

\* C30: on choosing a device in the picker, onAddRobot first issues the
\* creation POST; the definition fetch of a run is issued only in the step in
\* which its POST completes, never before or while the POST is in flight; and
\* the fetched definition is applied to the scene, the details panel's
\* component list and the tree.
C30_PostThenRebuild ==
    /\ [](\A i \in DOMAIN adds.runs :
             adds.runs[i].get # "none" => adds.runs[i].post = "done")
    /\ [][/\ Len(adds.runs') > Len(adds.runs) =>
                \E p \in DOMAIN adds.pickers :
                   \E k \in DOMAIN adds.pickers[p].devices :
                      adds.runs' =
                          Append(adds.runs,
                                 [device |-> adds.pickers[p].devices[k],
                                  post |-> "pending", get |-> "none"])
          /\ \A i \in DOMAIN adds.runs :
                /\ (adds.runs[i].get = "none"
                       /\ adds.runs'[i].get # "none") =>
                      /\ adds.runs[i].post = "pending"
                      /\ adds.runs'[i].post = "done"
                      /\ adds.runs'[i].get = "pending"
                /\ (adds.runs[i].get = "pending"
                       /\ adds.runs'[i].get = "done") =>
                      \E d \in AddDefinitions : AppliedNow(d)]_vars

\* Reached: a device was chosen, its POST completed, and the definition
\* fetched afterwards is applied: two components where there was one.
C30_Witness ==
    /\ Len(adds.runs) >= 1
    /\ adds.runs[1].post = "done"
    /\ adds.runs[1].get = "done"
    /\ Len(allComponents) = 2
    /\ rowMap = {"a", "b"}

\* C31: every component group that is attached to the scene root is a value
\* of the live index, so that the next rebuild detaches it; stated for every
\* definition, also one that names an id twice.
C31_AttachedAreIndexed ==
    \A g \in DOMAIN groups :
        groups[g].parent = "scene" => g \in Range(components)

\* C32: whenever a live component is the selected id, every mesh attached
\* under its node is highlighted, also a mesh that an asset load attaches
\* after selectComponent was called for the component.
C32_SelectedMeshesHighlighted ==
    (selectedId # Null /\ selectedId \in DOMAIN components) =>
        MeshMaterials(groups[components[selectedId]]) \subseteq emissive

\* The live components of the scene that have a mesh or a placeholder.
WithMesh ==
    {id \in DOMAIN components :
        MeshMaterials(groups[components[id]]) # {}}

\* C33: a failed load stays in the model cache as a rejected promise: the
\* file is never requested again, in the same or a later rebuild; every call
\* of loadModelBody for it has rejected, so no component has a mesh or a
\* placeholder; and every component of the definition is in the live index.
C33_RejectedLoadIsCached ==
    /\ [](\A p \in Paths :
             /\ loadRequests[p] >= 1 => p \in DOMAIN modelCache
             /\ (p \in DOMAIN modelCache /\ modelCache[p] = "rejected") =>
                   /\ loadRequests[p] = 1
                   /\ awaiting = {}
                   /\ WithMesh = {}
                   /\ DOMAIN components = appliedIds)
    /\ [][\A p \in Paths :
             (p \in DOMAIN modelCache /\ modelCache[p] = "rejected") =>
                /\ p \in DOMAIN modelCache'
                /\ modelCache'[p] = "rejected"
                /\ loadRequests' = loadRequests]_vars

\* Reached: the load of robot.glb failed; the joint and the link that name
\* the file are live, neither has a mesh, and the file was requested once.
C33_Witness ==
    /\ modelCache = (FilePath("robot.glb") :> "rejected")
    /\ loadRequests[FilePath("robot.glb")] = 1
    /\ DOMAIN components = {"a", "b"}
    /\ groups[components["a"]].ctor = "Joint"
    /\ WithMesh = {}
    /\ awaiting = {}

\* The sockets that are connecting or open.
ActiveSockets ==
    {i \in DOMAIN sockets : sockets[i].state \in {"connecting", "open"}}

\* C34: while close() is not called, the client has at most one socket that
\* is connecting or open and at most one pending reconnect timer, and never
\* both at once, whatever the order of open, error, close and timer events.
C34_OneSocketOrOneTimer ==
    Cardinality(ActiveSockets) + Len(timers) <= 1

\* Reached: the first socket was closed and replaced, the second was opened
\* and then failed: its close event has set the only timer, and no socket is
\* connecting or open.
C34_Witness ==
    /\ Len(sockets) = 2
    /\ sockets[1].state = "closed"
    /\ sockets[2].state = "closed"
    /\ Len(timers) = 1
    /\ ActiveSockets = {}

\* C35: after stop() has returned no frame is rendered until start() is
\* called again, for every sequence of start() and stop() calls, also when
\* start() was called more than once before stop().
C35_NoFrameAfterStop ==
    [][(loop.stopped /\ loop'.requests > loop.requests) =>
          ~loop'.stopped]_vars

\* C36: at most one robot picker element is in the document at any time (so
\* that the one removal of a remount leaves none), for every interleaving of
\* clicks on the "+" button, arrivals of the device list and remounts of the
\* tree.
C36_AtMostOnePicker == Len(adds.pickers) <= 1

\* The ids of a component list.
IdsOf(comps) == {comps[i].id : i \in DOMAIN comps}

\* C37: between event handlers main's _allComponents, the details panel's
\* component list and the key set of Scene3D's live index derive from one
\* definition, the one applied last, whatever the order of definition
\* messages, state updates and the responses of onAddRobot runs.
C37_ListsFromOneDefinition ==
    /\ [](/\ detailsComponents = allComponents
          /\ DOMAIN components = IdsOf(allComponents)
          /\ appliedIds = IdsOf(allComponents))
    /\ [][(\/ allComponents' # allComponents
           \/ detailsComponents' # detailsComponents
           \/ DOMAIN components' # DOMAIN components) =>
              \E d \in AddDefinitions : AppliedNow(d)]_vars

\* Reached: one onAddRobot run has applied its definition and a second still
\* waits for its response; the lists and the index hold the one component of
\* the definition applied last, and a state update has moved it.
C37_Witness ==
    /\ Len(adds.runs) = 2
    /\ adds.runs[1].get = "done"
    /\ adds.runs[2].get = "pending"
    /\ Len(allComponents) = 1
    /\ DOMAIN components = {"a"}
    /\ groups[components["a"]].matrix = M2

\* C38: _getRobotJoints terminates for every component list whose ids are
\* unique, also when the parent references among the joints are cyclic or
\* branching, and returns each joint at most once; the loop is followed
\* past every joint of the list only for a list with a repeated id.
C38_GetRobotJointsTerminates ==
    /\ [](UniqueIds(collect.comps) =>
             /\ UniqueIds(collect.joints)
             /\ Len(collect.joints) < MaxChain)
    /\ [](collect.pc = "done" =>
             collect.joints =
                 getRobotJoints(collect.comps,
                                FindBy(collect.comps, "component_type",
                                       "serial_robot")))
    /\ (collect.pc = "loop" /\ UniqueIds(collect.comps))
          ~> (collect.pc = "done")

\* Reached: the call for a list with a cycle among its joints has returned
\* the one joint of the robot, and the call for a list in which J1 occurs
\* twice has collected J1, J2, J1, J2 and still finds a next joint.
C38_Witness ==
    /\ collect.last.comps = <<JointY, JointX, JointJ1, RobotR>>
    /\ collect.last.joints = <<JointJ1>>
    /\ collect.pc = "loop"
    /\ ~UniqueIds(collect.comps)
    /\ Len(collect.joints) = MaxChain
    /\ collect.joints[1] = collect.joints[3]
    /\ nextJoint(allJointsOf(collect.comps), collect.parentId) # NoComponent

\* C39: a click on the canvas selects only a component of the current
\* definition: the node that is hit is under a group of the live index, the
\* id given to onPick is a key of the live index, and onSelect is called only
\* for a component of the latest list with that id, whose group is the one
\* hit; a group that a rebuild removed, and a mesh attached to it later, is
\* never hit.
C39_PickSelectsLiveComponent ==
    /\ [](selectedId # Null =>
             /\ selectedId \in DOMAIN components
             /\ selectedId \in IdsOf(allComponents))
    /\ [][\A g \in 1..MaxNodes, k \in 1..2 :
             ViewportPick(g, k) =>
                /\ groups[g].parent = "scene"
                /\ g \in Range(components)
                /\ findComponentId(Scene, g, k) \in DOMAIN components
                /\ detailsSelectedId' # detailsSelectedId =>
                      /\ detailsSelectedId' = findComponentId(Scene, g, k)
                      /\ detailsSelectedId' \in IdsOf(allComponents)
                      /\ components[detailsSelectedId'] = g]_vars

\* Reached: a click has selected the live component "a" while the group of a
\* removed component, with the mesh its late load attached, is still in
\* memory.
C39_Witness ==
    /\ selectedId = "a"
    /\ detailsSelectedId = "a"
    /\ \E g \in DOMAIN groups :
          /\ groups[g].parent = "none"
          /\ g \notin Range(components)
          /\ MeshMaterials(groups[g]) # {}

\* C40: a definition message whose handler fails part-way, such as one
\* without a components list, leaves the scene built before, the component
\* lists and the tree unchanged.
C40_FailedDefinitionChangesNothing ==
    [][\A text \in FailingTexts :
          OnMessage(text) =>
             /\ components' = components
             /\ groups' = groups
             /\ allComponents' = allComponents
             /\ detailsComponents' = detailsComponents
             /\ rowMap' = rowMap]_vars

====
